---- MODULE Spec2Model ----
(***************************************************************************)
(* Collateral Ledger (ZeroStaking) and Debt Ledger (ZeroDebt) of the Zero  *)
(* protocol, as one state machine.  Every external entry point is one      *)
(* action; a call that reverts leaves the contract state as it was (EVM    *)
(* transaction semantics); the history variable `last` records the last    *)
(* transaction that succeeded.                                             *)
(*                                                                         *)
(* Time is measured in days: every time constant of the source is a whole  *)
(* number of days (1 days, 30 days, 365 days), and block.timestamp takes   *)
(* whole-day values here.  Amounts are far below 2^256, so the checked     *)
(* arithmetic of Solidity 0.8 can only revert on underflow, which the      *)
(* operators below model explicitly.                                       *)
(*                                                                         *)
(* Token contracts, the yield venue and the adapter behind the             *)
(* YieldStrategy interface are external to the two ledgers.  Tokens are    *)
(* plain balance maps whose transfer fails for lack of balance (holders    *)
(* are taken to have approved the ledgers).  A call to the adapter has     *)
(* every outcome its implementations can produce: it reverts, or it moves  *)
(* the requested amount, or on withdraw one unit less or more.             *)
(***************************************************************************)
EXTENDS Integers, Sequences, FiniteSets, TLC

\* ------------------------------------------------------------ bounds ----
MaxTime == 3
MaxTx == 6
MaxDebtId == 2
InitBal == 400
T0 == 1
MaxApyTime == 4
MaxDepth == 2

\* ---------------------------------------------------------- identities --
Zero == "0x0"
STAKING == "staking"
DEBT == "debt"
STRATEGY == "strategy"
ADMIN == "admin"
PAY == "pay"
EOA == {"alice", "bob", "shop", ADMIN}
Stakers == {"alice"}
Tokens == {"X", "Y"}
Supportable == {"X"}
Holders == EOA \cup {STAKING, DEBT, STRATEGY, PAY}
DebtIds == 0..(MaxDebtId + 1)

\* ------------------------------------------------------ input domains ---
StakeAmounts == {0, 150}
LockAmounts == {150}
PayAmounts == {0, 1, 100}
Periods == {1, 30}
Merchants == {Zero, "shop"}
Ratios == {9999, 10000, 15001}
Fees == {0, 1001}
Penalties == {0, 3001}
Ledgers == {DEBT, "bob"}
Strategies == {Zero, STRATEGY}
StratOutcomes == {"revert", "exact", "short", "over"}
APYs == {0, 1300}
TickSteps == {1}
Integrators == {PAY}
Authorizable == {Zero, PAY}
FundAmounts == {100}
PeriodBounds == {15, 31}
Recipients == {Zero, "bob"}
Claimers == {"alice", "bob"}
ClaimAmounts == {5}
ClaimOutcomes == {"revert", "none", "paid"}
RewardToken == "X"
SharePrices == {1000, 1100}
Depositors == {"alice"}
SeizeAmounts == {75}
BorrowAmounts == {100}
DepositAmounts == {0, 150}
ApySteps == {1, 29}
CreditStaked == {a \in 98..152 : a <= 102 \/ a >= 148}
CreditRatios == {10000, 12345, 15000, 15001, 20000}
CreditAmounts == 1..155

\* ------------------------------------------------- program constants ----
BPS == 10000
InitCollateralRatio == 15000
InitPlatformFee == 100
InitDefaultPenalty == 500
InitMinPeriod == 1
InitMaxPeriod == 30
MaxPlatformFee == 1000
MaxDefaultPenalty == 3000
YearDays == 365
InitAPY == 1300
RingSize == 10
OneDay == 1
WindowDays == 30
\* the 1e18 share-price scale, in the unit of SharePrices
WAD == 1000
usdcToken == "X"

VARIABLES stakes, supportedTokens, collateralRatio, zeroDebtContract,
          yieldStrategy, userRewards, totalRewards, lastRewardUpdate,
          debts, nextDebtId, userDebts, merchantDebts, platformFee,
          defaultPenalty, minimumRepaymentPeriod, maximumRepaymentPeriod,
          authorizedIntegrators, bal, now, last,
          yieldSnapshots, currentSnapshotIndex, currentAPY, lastAPYUpdate,
          totalDeposited, userShares, vaultShares, sharePrice,
          frames, entered

chain == <<stakes, supportedTokens, collateralRatio, zeroDebtContract,
           yieldStrategy, userRewards, totalRewards, lastRewardUpdate,
           debts, nextDebtId, userDebts, merchantDebts, platformFee,
           defaultPenalty, minimumRepaymentPeriod, maximumRepaymentPeriod,
           authorizedIntegrators, bal>>

\* storage of the two ledgers, without the token balances
storage == <<stakes, supportedTokens, collateralRatio, zeroDebtContract,
             yieldStrategy, userRewards, totalRewards, lastRewardUpdate,
             debts, nextDebtId, userDebts, merchantDebts, platformFee,
             defaultPenalty, minimumRepaymentPeriod, maximumRepaymentPeriod,
             authorizedIntegrators>>

\* storage of the MorphoStrategy adapter: the APY estimate and the shares;
\* vaultShares is morphoVault.balanceOf(adapter)
estimate == <<yieldSnapshots, currentSnapshotIndex, currentAPY, lastAPYUpdate>>
adapter == <<estimate, totalDeposited, userShares, vaultShares>>

\* the calls in flight, outermost first, and the contracts whose
\* ReentrancyGuard status is ENTERED
exec == <<frames, entered>>

vars == <<chain, now, last, adapter, sharePrice, exec>>

ZeroPos == [amount |-> 0, lockedAmount |-> 0, lastUpdateTime |-> 0]

ZeroDebtInfo ==
  [borrower |-> Zero, merchant |-> Zero, token |-> Zero, amount |-> 0,
   collateralToken |-> Zero, collateralAmount |-> 0, repaymentDeadline |-> 0,
   penalty |-> 0, repaid |-> FALSE, liquidated |-> FALSE]

\* The contract state as one value, so that nested calls compose.
State ==
  [stakes |-> stakes, supportedTokens |-> supportedTokens,
   collateralRatio |-> collateralRatio, zeroDebtContract |-> zeroDebtContract,
   yieldStrategy |-> yieldStrategy, userRewards |-> userRewards,
   totalRewards |-> totalRewards, lastRewardUpdate |-> lastRewardUpdate,
   debts |-> debts, nextDebtId |-> nextDebtId, userDebts |-> userDebts,
   merchantDebts |-> merchantDebts, platformFee |-> platformFee,
   defaultPenalty |-> defaultPenalty,
   minimumRepaymentPeriod |-> minimumRepaymentPeriod,
   maximumRepaymentPeriod |-> maximumRepaymentPeriod,
   authorizedIntegrators |-> authorizedIntegrators, bal |-> bal]

NoSnapshot == [timestamp |-> 0, sharePrice |-> 0]

\* The adapter's storage and the token balances as one value.
Adapter ==
  [yieldSnapshots |-> yieldSnapshots,
   currentSnapshotIndex |-> currentSnapshotIndex,
   currentAPY |-> currentAPY, lastAPYUpdate |-> lastAPYUpdate,
   totalDeposited |-> totalDeposited, userShares |-> userShares,
   vaultShares |-> vaultShares, bal |-> bal]

Ok(s) == [ok |-> TRUE, s |-> s]
Revert(s) == [ok |-> FALSE, s |-> s]

\* A position of the mapping stakes[user][token]; unset keys read as zero.
Pos(s, user, token) ==
  IF user \in EOA /\ token \in Tokens THEN s.stakes[user][token] ELSE ZeroPos

Transfer_Unchecked(s, token, from, to, amount) ==
  IF token \notin Tokens \/ from \notin Holders \/ to \notin Holders
    THEN Revert(s)
  ELSE IF s.bal[token][from] < amount THEN Ok(s)
  ELSE Ok([s EXCEPT !.bal[token] =
                      [@ EXCEPT ![from] = @ - amount, ![to] = @ + amount]])

IsContract_Any(token) == TRUE

\* SafeERC20's check that the address called holds code; address(0) and
\* the other addresses that are no token contract hold none.
IsContract(token) == token \in Tokens

\* IERC20.safeTransfer / safeTransferFrom: all or nothing; a call to an
\* address that is no token contract reverts (left to itself, the call
\* would succeed and do nothing).
Transfer(s, token, from, to, amount) ==
  IF ~IsContract(token) \/ from \notin Holders \/ to \notin Holders
    THEN Revert(s)
  ELSE IF token \notin Tokens THEN Ok(s)
  ELSE IF s.bal[token][from] < amount THEN Revert(s)
  ELSE Ok([s EXCEPT !.bal[token] =
                      [@ EXCEPT ![from] = @ - amount, ![to] = @ + amount]])

\* yieldStrategy.deposit(token, amount) called by the Collateral Ledger.
StrategyDeposit(s, token, amount, so) ==
  IF so = "revert" \/ amount = 0 THEN Revert(s)
  ELSE Transfer(s, token, STAKING, STRATEGY, amount)

\* yieldStrategy.withdraw(token, amount) called by the Collateral Ledger.
StrategyWithdraw(s, token, amount, so) ==
  IF so = "revert" \/ amount = 0 THEN Revert(s)
  ELSE LET w == CASE so = "exact" -> amount
                  [] so = "short" -> amount - 1
                  [] so = "over" -> amount + 1
       IN Transfer(s, token, STRATEGY, STAKING, w)

\* ZeroStaking._updateRewards
UpdateRewards(s, user, token, apy, t) ==
  IF s.yieldStrategy = Zero THEN s
  ELSE IF s.stakes[user][token].amount = 0 THEN s
  ELSE LET timeElapsed == t - s.lastRewardUpdate[user][token]
       IN IF timeElapsed = 0 THEN s
          ELSE LET reward == (s.stakes[user][token].amount * apy * timeElapsed)
                               \div (YearDays * BPS)
               IN [s EXCEPT !.userRewards[user][token] = @ + reward,
                            !.totalRewards[token] = @ + reward,
                            !.lastRewardUpdate[user][token] = t]

ForwardToStrategy_Required(s, token, amount, so) ==
  IF s.yieldStrategy # Zero THEN StrategyDeposit(s, token, amount, so)
  ELSE Revert(s)

\* stake's forwarding step: if (address(yieldStrategy) != address(0))
\* yieldStrategy.deposit(token, amount)
ForwardToStrategy(s, token, amount, so) ==
  IF s.yieldStrategy # Zero THEN StrategyDeposit(s, token, amount, so)
  ELSE Ok(s)

Credited_Locking(p, amount, t) ==
  [p EXCEPT !.amount = @ + amount, !.lockedAmount = @ + amount,
            !.lastUpdateTime = t]

\* stake's writes to the caller's position: stakeInfo.amount += amount;
\* stakeInfo.lastUpdateTime = block.timestamp
Credited(p, amount, t) ==
  [p EXCEPT !.amount = @ + amount, !.lastUpdateTime = t]

\* ZeroStaking.stake
stake(s, sender, token, amount, so, apy, t) ==
  IF token \notin Tokens THEN Revert(s)
  ELSE IF ~s.supportedTokens[token] THEN Revert(s)
  ELSE IF ~(amount > 0) THEN Revert(s)
  ELSE
    LET s1 == UpdateRewards(s, sender, token, apy, t)
        r2 == Transfer(s1, token, sender, STAKING, amount)
        r3 == IF ~r2.ok THEN r2
              ELSE ForwardToStrategy(r2.s, token, amount, so)
    IN IF ~r3.ok THEN Revert(s)
       ELSE Ok([r3.s EXCEPT !.stakes[sender][token] =
                              Credited(@, amount, t)])

UnlockedCovers_StakedOnly(p, amount) == TRUE

\* unstake's require(stakeInfo.amount - stakeInfo.lockedAmount >= amount); the
\* checked subtraction reverts on underflow.
UnlockedCovers(p, amount) ==
  p.amount >= p.lockedAmount /\ p.amount - p.lockedAmount >= amount

\* ZeroStaking.unstake
unstake(s, sender, token, amount, so, apy, t) ==
  LET p == s.stakes[sender][token]
  IN IF ~(amount > 0) THEN Revert(s)
     ELSE IF ~(p.amount >= amount) THEN Revert(s)
     ELSE IF ~UnlockedCovers(p, amount) THEN Revert(s)
     ELSE
       LET s1 == UpdateRewards(s, sender, token, apy, t)
           s2 == [s1 EXCEPT !.stakes[sender][token].amount = @ - amount,
                            !.stakes[sender][token].lastUpdateTime = t]
           r3 == IF s2.yieldStrategy # Zero
                   THEN StrategyWithdraw(s2, token, amount, so)
                 ELSE Ok(s2)
           r4 == IF ~r3.ok THEN r3
                 ELSE Transfer(r3.s, token, STAKING, sender, amount)
       IN IF ~r4.ok THEN Revert(s) ELSE r4

OnlyZeroDebt_Anyone(s, sender) == TRUE

\* require(msg.sender == zeroDebtContract) of the three privileged entry
\* points.
OnlyZeroDebt(s, sender) == sender = s.zeroDebtContract

FreeBalanceCovers_StakedOnly(p, amount) == p.amount >= amount

\* lockCollateral's require(stakeInfo.amount - stakeInfo.lockedAmount >=
\* amount); the checked subtraction reverts on underflow.
FreeBalanceCovers(p, amount) ==
  p.amount >= p.lockedAmount /\ p.amount - p.lockedAmount >= amount

\* ZeroStaking.lockCollateral
lockCollateral(s, sender, user, token, amount) ==
  LET p == Pos(s, user, token)
  IN IF ~OnlyZeroDebt(s, sender) THEN Revert(s)
     ELSE IF ~FreeBalanceCovers(p, amount) THEN Revert(s)
     ELSE IF ~(user \in EOA /\ token \in Tokens) THEN Ok(s)
     ELSE Ok([s EXCEPT !.stakes[user][token].lockedAmount = @ + amount])

\* ZeroStaking.unlockCollateral
unlockCollateral(s, sender, user, token, amount) ==
  LET p == Pos(s, user, token)
  IN IF ~OnlyZeroDebt(s, sender) THEN Revert(s)
     ELSE IF ~(p.lockedAmount >= amount) THEN Revert(s)
     ELSE IF ~(user \in EOA /\ token \in Tokens) THEN Ok(s)
     ELSE Ok([s EXCEPT !.stakes[user][token].lockedAmount = @ - amount])

Seize_LockedOnly(p, amount) == [p EXCEPT !.lockedAmount = @ - amount]

\* liquidateCollateral's "Update stakes": both staked and locked go down.
Seize(p, amount) ==
  [p EXCEPT !.amount = @ - amount, !.lockedAmount = @ - amount]

\* ZeroStaking.liquidateCollateral
liquidateCollateral(s, sender, user, token, amount, recipient, so) ==
  LET p == Pos(s, user, token)
  IN IF ~OnlyZeroDebt(s, sender) THEN Revert(s)
     ELSE IF ~(p.lockedAmount >= amount) THEN Revert(s)
     ELSE IF p.amount < amount THEN Revert(s)
     ELSE
       LET s1 == IF user \in EOA /\ token \in Tokens
                   THEN [s EXCEPT !.stakes[user][token] = Seize(@, amount)]
                 ELSE s
           r2 == IF s1.yieldStrategy # Zero
                   THEN StrategyWithdraw(s1, token, amount, so)
                 ELSE Ok(s1)
           r3 == IF ~r2.ok THEN r2
                 ELSE Transfer(r2.s, token, STAKING, recipient, amount)
       IN IF ~r3.ok THEN Revert(s) ELSE r3

getAvailableCredit_StakedOnly(s, user, token) ==
  LET p == Pos(s, user, token)
  IN [ok |-> TRUE, v |-> (p.amount * BPS) \div s.collateralRatio]

getAvailableCredit_Multiplied(s, user, token) ==
  LET p == Pos(s, user, token)
  IN IF p.amount < p.lockedAmount THEN [ok |-> FALSE, v |-> 0]
     ELSE [ok |-> TRUE,
           v |-> ((p.amount - p.lockedAmount) * s.collateralRatio) \div BPS]

\* ZeroStaking.getAvailableCredit; the subtraction is checked, so the view
\* reverts when it would underflow.
getAvailableCredit(s, user, token) ==
  LET p == Pos(s, user, token)
  IN IF p.amount < p.lockedAmount THEN [ok |-> FALSE, v |-> 0]
     ELSE [ok |-> TRUE,
           v |-> ((p.amount - p.lockedAmount) * BPS) \div s.collateralRatio]

CollateralRequired_NoRatio(s, paymentAmount) == paymentAmount

\* createDebt's collateralRequired = (paymentAmount * collateralRatio) / 10000
CollateralRequired(s, paymentAmount) ==
  (paymentAmount * s.collateralRatio) \div BPS

\* createDebt's fee = (paymentAmount * platformFee) / 10000
PlatformFeeOf(s, paymentAmount) == (paymentAmount * s.platformFee) \div BPS

PeriodInRange_Exclusive(s, repaymentPeriod) ==
  /\ repaymentPeriod > s.minimumRepaymentPeriod
  /\ repaymentPeriod < s.maximumRepaymentPeriod

\* require(repaymentPeriod >= minimumRepaymentPeriod) and
\* require(repaymentPeriod <= maximumRepaymentPeriod), in createDebt and
\* createDebtFor
PeriodInRange(s, repaymentPeriod) ==
  /\ repaymentPeriod >= s.minimumRepaymentPeriod
  /\ repaymentPeriod <= s.maximumRepaymentPeriod

CreditCovers_Always(availableCredit, paymentAmount) == TRUE

\* require(availableCredit >= paymentAmount), in createDebt and createDebtFor
CreditCovers(availableCredit, paymentAmount) ==
  availableCredit >= paymentAmount

IdAfter_Kept(debtId) == debtId

\* uint256 debtId = nextDebtId++: the counter once debtId has been assigned
IdAfter(debtId) == debtId + 1

\* ZeroDebt.createDebt
createDebt(s, sender, merchant, paymentToken, paymentAmount, collateralToken, repaymentPeriod, t) ==
  IF merchant = Zero THEN Revert(s)
  ELSE IF ~(paymentAmount > 0) THEN Revert(s)
  ELSE IF ~PeriodInRange(s, repaymentPeriod) THEN Revert(s)
  ELSE
    LET credit == getAvailableCredit(s, sender, collateralToken)
    IN IF ~credit.ok THEN Revert(s)
       ELSE IF ~CreditCovers(credit.v, paymentAmount) THEN Revert(s)
       ELSE
         LET collateralRequired == CollateralRequired(s, paymentAmount)
             r1 == lockCollateral(s, DEBT, sender, collateralToken,
                                  collateralRequired)
             fee == PlatformFeeOf(s, paymentAmount)
             merchantPayment == paymentAmount - fee
             r2 == IF ~r1.ok THEN r1
                   ELSE Transfer(r1.s, paymentToken, sender, merchant,
                                 merchantPayment)
             r3 == IF ~r2.ok THEN r2
                   ELSE IF fee > 0
                     THEN Transfer(r2.s, paymentToken, sender, DEBT, fee)
                   ELSE r2
             debtId == s.nextDebtId
         IN IF ~r3.ok THEN Revert(s)
            ELSE Ok([r3.s EXCEPT
                   !.nextDebtId = IdAfter(debtId),
                   !.debts[debtId] =
                     [borrower |-> sender, merchant |-> merchant,
                      token |-> paymentToken, amount |-> paymentAmount,
                      collateralToken |-> collateralToken,
                      collateralAmount |-> collateralRequired,
                      repaymentDeadline |-> t + repaymentPeriod,
                      penalty |-> s.defaultPenalty,
                      repaid |-> FALSE, liquidated |-> FALSE],
                   !.userDebts[sender] = Append(@, debtId),
                   !.merchantDebts[merchant] = Append(@, debtId)])

IsAuthorized_Anyone(s, sender) == TRUE

\* createDebtFor's first require: the caller is on the allow-list
IsAuthorized(s, sender) == sender \in s.authorizedIntegrators

\* ZeroDebt.createDebtFor: the merchant is paid by safeTransfer, that is
\* from the Debt Ledger's own balance; no fee is transferred.
createDebtFor(s, sender, borrower, merchant, paymentToken, paymentAmount, collateralToken, repaymentPeriod, t) ==
  IF ~IsAuthorized(s, sender) THEN Revert(s)
  ELSE IF borrower = Zero THEN Revert(s)
  ELSE IF merchant = Zero THEN Revert(s)
  ELSE IF ~(paymentAmount > 0) THEN Revert(s)
  ELSE IF ~PeriodInRange(s, repaymentPeriod) THEN Revert(s)
  ELSE
    LET credit == getAvailableCredit(s, borrower, collateralToken)
    IN IF ~credit.ok THEN Revert(s)
       ELSE IF ~CreditCovers(credit.v, paymentAmount) THEN Revert(s)
       ELSE
         LET collateralRequired == CollateralRequired(s, paymentAmount)
             r1 == lockCollateral(s, DEBT, borrower, collateralToken,
                                  collateralRequired)
             fee == PlatformFeeOf(s, paymentAmount)
             merchantPayment == paymentAmount - fee
             r2 == IF ~r1.ok THEN r1
                   ELSE Transfer(r1.s, paymentToken, DEBT, merchant,
                                 merchantPayment)
             debtId == s.nextDebtId
         IN IF ~r2.ok THEN Revert(s)
            ELSE Ok([r2.s EXCEPT
                   !.nextDebtId = IdAfter(debtId),
                   !.debts[debtId] =
                     [borrower |-> borrower, merchant |-> merchant,
                      token |-> paymentToken, amount |-> paymentAmount,
                      collateralToken |-> collateralToken,
                      collateralAmount |-> collateralRequired,
                      repaymentDeadline |-> t + repaymentPeriod,
                      penalty |-> s.defaultPenalty,
                      repaid |-> FALSE, liquidated |-> FALSE],
                   !.userDebts[borrower] = Append(@, debtId),
                   !.merchantDebts[merchant] = Append(@, debtId)])

\* penaltyAmount = (debt.amount * debt.penalty) / 10000, in repayDebt and
\* in liquidateDebt
PenaltyAmount(debt) == (debt.amount * debt.penalty) \div BPS

RepaymentAmount_NoPenalty(debt, t) == debt.amount

\* repayDebt's repaymentAmount: the amount it pulls from the borrower.
RepaymentAmount(debt, t) ==
  IF t > debt.repaymentDeadline
    THEN debt.amount + PenaltyAmount(debt)
  ELSE debt.amount

IsBorrower_Anyone(debt, sender) == TRUE

\* repayDebt's require(debt.borrower == msg.sender)
IsBorrower(debt, sender) == debt.borrower = sender

UnlockedOnRepay_Payment(debt) == debt.amount

\* The amount repayDebt hands to unlockCollateral.
UnlockedOnRepay(debt) == debt.collateralAmount

\* ZeroDebt.repayDebt
repayDebt(s, sender, debtId, t) ==
  LET debt == s.debts[debtId]
  IN IF ~IsBorrower(debt, sender) THEN Revert(s)
     ELSE IF debt.repaid THEN Revert(s)
     ELSE IF debt.liquidated THEN Revert(s)
     ELSE
       LET r1 == Transfer(s, debt.token, sender, DEBT, RepaymentAmount(debt, t))
           r2 == IF ~r1.ok THEN r1
                 ELSE unlockCollateral(r1.s, DEBT, debt.borrower,
                                       debt.collateralToken,
                                       UnlockedOnRepay(debt))
       IN IF ~r2.ok THEN Revert(s)
          ELSE Ok([r2.s EXCEPT !.debts[debtId].repaid = TRUE])

DeadlinePassed_Inclusive(debt, t) == t >= debt.repaymentDeadline

\* liquidateDebt's require(block.timestamp > debt.repaymentDeadline)
DeadlinePassed(debt, t) == t > debt.repaymentDeadline

MarkLiquidated_Forgotten(debt) == debt

\* liquidateDebt's debt.liquidated = true
MarkLiquidated(debt) == [debt EXCEPT !.liquidated = TRUE]

MerchantShare_Whole(debt) == PenaltyAmount(debt)

\* liquidateDebt's merchantShare = penaltyAmount / 2
MerchantShare(debt) == PenaltyAmount(debt) \div 2

SeizedOnLiquidate_Payment(debt) == debt.amount

\* The amount liquidateDebt hands to liquidateCollateral.
SeizedOnLiquidate(debt) == debt.collateralAmount

\* ZeroDebt.liquidateDebt
liquidateDebt(s, sender, debtId, so, t) ==
  LET debt == s.debts[debtId]
  IN IF debt.repaid THEN Revert(s)
     ELSE IF debt.liquidated THEN Revert(s)
     ELSE IF ~DeadlinePassed(debt, t) THEN Revert(s)
     ELSE
       LET merchantShare == MerchantShare(debt)
           r1 == liquidateCollateral(s, DEBT, debt.borrower,
                                     debt.collateralToken,
                                     SeizedOnLiquidate(debt), DEBT, so)
           s2 == [r1.s EXCEPT !.debts[debtId] = MarkLiquidated(@)]
           r3 == IF ~r1.ok THEN r1
                 ELSE IF merchantShare > 0
                   THEN Transfer(s2, debt.token, DEBT, debt.merchant,
                                 merchantShare)
                 ELSE Ok(s2)
       IN IF ~r3.ok THEN Revert(s) ELSE r3

getUserActiveDebts_RepaidOnly(s, user) ==
  LET active(i) == ~s.debts[i].repaid
  IN SelectSeq(s.userDebts[user], active)

\* ZeroDebt.getUserActiveDebts: the user's debt ids, in the order of
\* userDebts, that are neither repaid nor liquidated.
getUserActiveDebts(s, user) ==
  LET active(i) == ~s.debts[i].repaid /\ ~s.debts[i].liquidated
  IN SelectSeq(s.userDebts[user], active)

\* ------------------------------------------------------------ actions ---
\* History variable: the last transaction that succeeded, with its arguments.
\* seq counts the transactions that succeeded so far; prePos is
\* the borrower's position as createDebt found it.
NoCall ==
  [op |-> "none", caller |-> Zero, user |-> Zero, token |-> Zero,
   amount |-> 0, id |-> 0, payToken |-> Zero, period |-> 0, seq |-> 0,
   borrower |-> Zero, prePos |-> ZeroPos]

Apply(s) ==
  /\ stakes' = s.stakes
  /\ supportedTokens' = s.supportedTokens
  /\ collateralRatio' = s.collateralRatio
  /\ zeroDebtContract' = s.zeroDebtContract
  /\ yieldStrategy' = s.yieldStrategy
  /\ userRewards' = s.userRewards
  /\ totalRewards' = s.totalRewards
  /\ lastRewardUpdate' = s.lastRewardUpdate
  /\ debts' = s.debts
  /\ nextDebtId' = s.nextDebtId
  /\ userDebts' = s.userDebts
  /\ merchantDebts' = s.merchantDebts
  /\ platformFee' = s.platformFee
  /\ defaultPenalty' = s.defaultPenalty
  /\ minimumRepaymentPeriod' = s.minimumRepaymentPeriod
  /\ maximumRepaymentPeriod' = s.maximumRepaymentPeriod
  /\ authorizedIntegrators' = s.authorizedIntegrators
  /\ bal' = s.bal

\* One transaction: its effects if it succeeds, none if it reverts.
Call(r, rec) ==
  /\ frames = <<>>
  /\ last.seq < MaxTx
  /\ IF r.ok
       THEN Apply(r.s) /\ last' = [rec EXCEPT !.seq = last.seq + 1]
     ELSE UNCHANGED <<chain, last>>
  /\ UNCHANGED <<now, adapter, sharePrice, exec>>

\* Outcomes of the adapter and the APY it reports; irrelevant without one.
Outcomes == IF yieldStrategy = Zero THEN {"exact"} ELSE StratOutcomes
DepositOutcomes ==
  IF yieldStrategy = Zero THEN {"exact"} ELSE {"revert", "exact"}
ReportedAPYs == IF yieldStrategy = Zero THEN {0} ELSE APYs

Init ==
  /\ stakes = [u \in EOA |-> [t \in Tokens |-> ZeroPos]]
  /\ supportedTokens = [t \in Tokens |-> FALSE]
  /\ collateralRatio = InitCollateralRatio
  /\ zeroDebtContract = Zero
  /\ yieldStrategy = Zero
  /\ userRewards = [u \in EOA |-> [t \in Tokens |-> 0]]
  /\ totalRewards = [t \in Tokens |-> 0]
  /\ lastRewardUpdate = [u \in EOA |-> [t \in Tokens |-> 0]]
  /\ debts = [i \in DebtIds |-> ZeroDebtInfo]
  /\ nextDebtId = 1
  /\ userDebts = [u \in EOA |-> <<>>]
  /\ merchantDebts = [u \in EOA |-> <<>>]
  /\ platformFee = InitPlatformFee
  /\ defaultPenalty = InitDefaultPenalty
  /\ minimumRepaymentPeriod = InitMinPeriod
  /\ maximumRepaymentPeriod = InitMaxPeriod
  /\ authorizedIntegrators = {}
  /\ bal = [t \in Tokens |-> [h \in Holders |->
                                IF h \in Stakers \cup {PAY} THEN InitBal ELSE 0]]
  /\ now = T0
  /\ last = NoCall
  /\ yieldSnapshots =
       [i \in 0..(RingSize - 1) |->
          IF i = 0 THEN [timestamp |-> T0, sharePrice |-> WAD]
          ELSE NoSnapshot]
  /\ currentSnapshotIndex = 0
  /\ currentAPY = InitAPY
  /\ lastAPYUpdate = T0
  /\ totalDeposited = 0
  /\ userShares = [u \in EOA |-> 0]
  /\ vaultShares = 0
  /\ sharePrice = WAD
  /\ frames = <<>>
  /\ entered = {}

Stake ==
  \E c \in Stakers, t \in Tokens, a \in StakeAmounts,
     so \in DepositOutcomes, apy \in ReportedAPYs :
    Call(stake(State, c, t, a, so, apy, now),
         [NoCall EXCEPT !.op = "stake", !.caller = c, !.token = t,
                        !.amount = a])

Unstake ==
  \E c \in Stakers, t \in Tokens, a \in StakeAmounts,
     so \in Outcomes, apy \in ReportedAPYs :
    Call(unstake(State, c, t, a, so, apy, now),
         [NoCall EXCEPT !.op = "unstake", !.caller = c, !.token = t,
                        !.amount = a])

LockCollateral ==
  \E c \in EOA, u \in Stakers, t \in Tokens, a \in LockAmounts :
    Call(lockCollateral(State, c, u, t, a),
         [NoCall EXCEPT !.op = "lockCollateral", !.caller = c, !.user = u,
                        !.token = t, !.amount = a])

UnlockCollateral ==
  \E c \in EOA, u \in Stakers, t \in Tokens, a \in LockAmounts :
    Call(unlockCollateral(State, c, u, t, a),
         [NoCall EXCEPT !.op = "unlockCollateral", !.caller = c, !.user = u,
                        !.token = t, !.amount = a])

LiquidateCollateral ==
  \E c \in EOA, u \in Stakers, t \in Tokens, a \in LockAmounts,
     so \in Outcomes :
    Call(liquidateCollateral(State, c, u, t, a, c, so),
         [NoCall EXCEPT !.op = "liquidateCollateral", !.caller = c,
                        !.user = u, !.token = t, !.amount = a])

CreateDebt ==
  /\ nextDebtId <= MaxDebtId
  /\ \E c \in Stakers, m \in Merchants, pt \in Tokens, pa \in PayAmounts,
        ct \in Supportable, per \in Periods :
       Call(createDebt(State, c, m, pt, pa, ct, per, now),
            [NoCall EXCEPT !.op = "createDebt", !.caller = c, !.user = m,
                           !.token = ct, !.amount = pa, !.id = nextDebtId,
                           !.payToken = pt, !.period = per,
                           !.prePos = stakes[c][ct]])

RepayDebt ==
  \E c \in EOA, id \in DebtIds :
    Call(repayDebt(State, c, id, now),
         [NoCall EXCEPT !.op = "repayDebt", !.caller = c, !.id = id])

LiquidateDebt ==
  \E c \in EOA, id \in DebtIds, so \in Outcomes :
    Call(liquidateDebt(State, c, id, so, now),
         [NoCall EXCEPT !.op = "liquidateDebt", !.caller = c, !.id = id])

\* ---- administrator entry points (Ownable.onlyOwner; the deployer of both
\* ---- ledgers is ADMIN)
IsOwner_Anyone(sender) == TRUE

\* Ownable._checkOwner: owner() == msg.sender
IsOwner(sender) == sender = ADMIN

onlyOwner(s, sender, s1) == IF IsOwner(sender) THEN Ok(s1) ELSE Revert(s)

\* ZeroStaking.setZeroDebtContract
setZeroDebtContract(s, sender, a) ==
  onlyOwner(s, sender, [s EXCEPT !.zeroDebtContract = a])

\* ZeroStaking.setYieldStrategy
setYieldStrategy(s, sender, a) ==
  onlyOwner(s, sender, [s EXCEPT !.yieldStrategy = a])

\* ZeroStaking.addSupportedToken
addSupportedToken(s, sender, token) ==
  onlyOwner(s, sender, [s EXCEPT !.supportedTokens[token] = TRUE])

removeSupportedToken_Clawback(s, sender, token) ==
  onlyOwner(s, sender,
            [s EXCEPT !.supportedTokens[token] = FALSE,
                      !.stakes = [u \in EOA |->
                                    [s.stakes[u] EXCEPT ![token] = ZeroPos]]])

\* ZeroStaking.removeSupportedToken
removeSupportedToken(s, sender, token) ==
  onlyOwner(s, sender, [s EXCEPT !.supportedTokens[token] = FALSE])

setCollateralRatio_Recompute(s, sender, ratio) ==
  IF ~IsOwner(sender) THEN Revert(s)
  ELSE IF ~(ratio >= BPS) THEN Revert(s)
  ELSE Ok([s EXCEPT !.collateralRatio = ratio,
                    !.debts = [i \in DebtIds |->
                                 [s.debts[i] EXCEPT !.collateralAmount =
                                    (s.debts[i].amount * ratio) \div BPS]]])

\* ZeroStaking.setCollateralRatio
setCollateralRatio(s, sender, ratio) ==
  IF ~IsOwner(sender) THEN Revert(s)
  ELSE IF ~(ratio >= BPS) THEN Revert(s)
  ELSE Ok([s EXCEPT !.collateralRatio = ratio])

\* ZeroDebt.setPlatformFee
setPlatformFee(s, sender, fee) ==
  IF ~IsOwner(sender) THEN Revert(s)
  ELSE IF ~(fee <= MaxPlatformFee) THEN Revert(s)
  ELSE Ok([s EXCEPT !.platformFee = fee])

\* ZeroDebt.setDefaultPenalty
setDefaultPenalty(s, sender, penalty) ==
  IF ~IsOwner(sender) THEN Revert(s)
  ELSE IF ~(penalty <= MaxDefaultPenalty) THEN Revert(s)
  ELSE Ok([s EXCEPT !.defaultPenalty = penalty])

\* ZeroDebt.authorizeIntegrator
authorizeIntegrator(s, sender, integrator) ==
  IF ~IsOwner(sender) THEN Revert(s)
  ELSE IF integrator = Zero THEN Revert(s)
  ELSE Ok([s EXCEPT !.authorizedIntegrators = @ \cup {integrator}])

\* ZeroDebt.deauthorizeIntegrator
deauthorizeIntegrator(s, sender, integrator) ==
  onlyOwner(s, sender, [s EXCEPT !.authorizedIntegrators = @ \ {integrator}])

\* ZeroDebt.setMinimumRepaymentPeriod
setMinimumRepaymentPeriod_Unbounded(s, sender, period) ==
  IF ~IsOwner(sender) THEN Revert(s)
  ELSE Ok([s EXCEPT !.minimumRepaymentPeriod = period])

\* ZeroDebt.setMinimumRepaymentPeriod
setMinimumRepaymentPeriod(s, sender, period) ==
  IF ~IsOwner(sender) THEN Revert(s)
  ELSE IF ~(period <= s.maximumRepaymentPeriod) THEN Revert(s)
  ELSE Ok([s EXCEPT !.minimumRepaymentPeriod = period])

\* ZeroDebt.setMaximumRepaymentPeriod
setMaximumRepaymentPeriod(s, sender, period) ==
  IF ~IsOwner(sender) THEN Revert(s)
  ELSE IF ~(period >= s.minimumRepaymentPeriod) THEN Revert(s)
  ELSE Ok([s EXCEPT !.maximumRepaymentPeriod = period])

\* ZeroDebt.withdrawFees: the Debt Ledger's whole balance of the token
withdrawFees(s, sender, token, recipient) ==
  IF ~IsOwner(sender) THEN Revert(s)
  ELSE IF recipient = Zero THEN Revert(s)
  ELSE IF s.bal[token][DEBT] > 0
         THEN Transfer(s, token, DEBT, recipient, s.bal[token][DEBT])
       ELSE Ok(s)

Admins == {ADMIN, "bob"}

SetZeroDebtContract ==
  \E c \in Admins, a \in Ledgers :
    Call(setZeroDebtContract(State, c, a),
         [NoCall EXCEPT !.op = "setZeroDebtContract", !.caller = c,
                        !.user = a])

SetYieldStrategy ==
  \E c \in Admins, a \in Strategies :
    Call(setYieldStrategy(State, c, a),
         [NoCall EXCEPT !.op = "setYieldStrategy", !.caller = c, !.user = a])

AddSupportedToken ==
  \E c \in Admins, t \in Supportable :
    Call(addSupportedToken(State, c, t),
         [NoCall EXCEPT !.op = "addSupportedToken", !.caller = c,
                        !.token = t])

RemoveSupportedToken ==
  \E c \in Admins, t \in Supportable :
    Call(removeSupportedToken(State, c, t),
         [NoCall EXCEPT !.op = "removeSupportedToken", !.caller = c,
                        !.token = t])

SetCollateralRatio ==
  \E c \in Admins, r \in Ratios :
    Call(setCollateralRatio(State, c, r),
         [NoCall EXCEPT !.op = "setCollateralRatio", !.caller = c,
                        !.amount = r])

SetPlatformFee ==
  \E c \in Admins, f \in Fees :
    Call(setPlatformFee(State, c, f),
         [NoCall EXCEPT !.op = "setPlatformFee", !.caller = c, !.amount = f])

SetDefaultPenalty ==
  \E c \in Admins, p \in Penalties :
    Call(setDefaultPenalty(State, c, p),
         [NoCall EXCEPT !.op = "setDefaultPenalty", !.caller = c,
                        !.amount = p])

CreateDebtFor ==
  /\ nextDebtId <= MaxDebtId
  /\ \E c \in Integrators, b \in Stakers, m \in Merchants, pt \in Tokens,
        pa \in PayAmounts, ct \in Supportable, per \in Periods :
       Call(createDebtFor(State, c, b, m, pt, pa, ct, per, now),
            [NoCall EXCEPT !.op = "createDebtFor", !.caller = c, !.user = m,
                           !.token = ct, !.amount = pa, !.id = nextDebtId,
                           !.payToken = pt, !.period = per,
                           !.borrower = b, !.prePos = stakes[b][ct]])

AuthorizeIntegrator ==
  \E c \in Admins, a \in Authorizable :
    Call(authorizeIntegrator(State, c, a),
         [NoCall EXCEPT !.op = "authorizeIntegrator", !.caller = c,
                        !.user = a])

DeauthorizeIntegrator ==
  \E c \in Admins, a \in Authorizable :
    Call(deauthorizeIntegrator(State, c, a),
         [NoCall EXCEPT !.op = "deauthorizeIntegrator", !.caller = c,
                        !.user = a])

SetMinimumRepaymentPeriod ==
  \E c \in Admins, p \in PeriodBounds :
    Call(setMinimumRepaymentPeriod(State, c, p),
         [NoCall EXCEPT !.op = "setMinimumRepaymentPeriod", !.caller = c,
                        !.period = p])

SetMaximumRepaymentPeriod ==
  \E c \in Admins, p \in PeriodBounds :
    Call(setMaximumRepaymentPeriod(State, c, p),
         [NoCall EXCEPT !.op = "setMaximumRepaymentPeriod", !.caller = c,
                        !.period = p])

WithdrawFees ==
  \E c \in Admins, t \in Supportable, rcp \in Recipients :
    Call(withdrawFees(State, c, t, rcp),
         [NoCall EXCEPT !.op = "withdrawFees", !.caller = c, !.user = rcp,
                        !.token = t, !.amount = bal[t][DEBT]])

\* The adapter's claimRewards(user, claimable, proof): the distributor
\* rejects the claim (or the adapter its caller), or reports nothing
\* claimed, or reports the claimable amount, which the adapter then pays
\* to `user` out of its own balance of the reward token.
StrategyClaim(s, user, claimable, co) ==
  CASE co = "revert" -> Revert(s)
    [] co = "none" -> Ok(s)
    [] co = "paid" ->
         IF claimable > 0
           THEN Transfer(s, RewardToken, STRATEGY, user, claimable)
         ELSE Ok(s)

Claimant_Owner(sender) == ADMIN

\* morphoStrategy.claimRewards(msg.sender, ...): the user claimed for
Claimant(sender) == sender

\* ZeroStaking.claimRewards
claimRewards(s, sender, token, claimable, co) ==
  IF s.yieldStrategy = Zero THEN Revert(s)
  ELSE StrategyClaim(s, Claimant(sender), claimable, co)

ClaimRewards ==
  \E c \in Claimers, t \in Supportable, a \in ClaimAmounts,
     co \in ClaimOutcomes :
    Call(claimRewards(State, c, t, a, co),
         [NoCall EXCEPT !.op = "claimRewards", !.caller = c, !.token = t,
                        !.amount = a, !.id = IF co = "paid" THEN 1 ELSE 0])

\* A plain token transfer to the Debt Ledger: the only way the balance that
\* createDebtFor pays merchants from gets there ahead of repayments.
FundDebtLedger ==
  \E t \in Supportable, a \in FundAmounts :
    Call(Transfer(State, t, PAY, DEBT, a),
         [NoCall EXCEPT !.op = "transfer", !.caller = PAY, !.user = DEBT,
                        !.token = t, !.amount = a])

\* block.timestamp advances between transactions.
Tick ==
  /\ frames = <<>>
  /\ \E d \in TickSteps : now + d <= MaxTime /\ now' = now + d
  /\ UNCHANGED <<chain, last, adapter, sharePrice, exec>>

Next ==
  \/ Stake
  \/ Unstake
  \/ LockCollateral
  \/ UnlockCollateral
  \/ LiquidateCollateral
  \/ CreateDebt
  \/ RepayDebt
  \/ LiquidateDebt
  \/ SetZeroDebtContract
  \/ SetYieldStrategy
  \/ AddSupportedToken
  \/ RemoveSupportedToken
  \/ SetCollateralRatio
  \/ SetPlatformFee
  \/ SetDefaultPenalty
  \/ Tick

Spec == Init /\ [][Next]_vars

\* The integrator path: the Debt Ledger with its allow-list and
\* createDebtFor, on a Collateral Ledger that keeps custody itself.
NextFor ==
  \/ Stake
  \/ Unstake
  \/ CreateDebt
  \/ CreateDebtFor
  \/ RepayDebt
  \/ LiquidateDebt
  \/ AuthorizeIntegrator
  \/ DeauthorizeIntegrator
  \/ FundDebtLedger
  \/ SetZeroDebtContract
  \/ AddSupportedToken
  \/ SetCollateralRatio
  \/ Tick

SpecFor == Init /\ [][NextFor]_vars

\* ---- MorphoStrategy: the APY estimate
\* block.timestamp - yieldSnapshots[i].timestamp > 30 days is false
InWindow_Always(timestamp, t) == TRUE

InWindow(timestamp, t) == ~(t - timestamp > WindowDays)

Throttled_Never(a, t) == FALSE

\* block.timestamp < lastAPYUpdate + 1 days
Throttled(a, t) == t < a.lastAPYUpdate + OneDay

\* The loop of updateAPY from slot i on: the slot with the smallest
\* timestamp among those written and not older than 30 days, the first
\* such slot winning; <<oldestIndex, oldestTimestamp>>.
RECURSIVE OldestFrom(_, _, _, _, _)
OldestFrom(snaps, t, i, oldestIndex, oldestTimestamp) ==
  IF i >= RingSize THEN <<oldestIndex, oldestTimestamp>>
  ELSE IF snaps[i].timestamp = 0
         THEN OldestFrom(snaps, t, i + 1, oldestIndex, oldestTimestamp)
  ELSE IF ~InWindow(snaps[i].timestamp, t)
         THEN OldestFrom(snaps, t, i + 1, oldestIndex, oldestTimestamp)
  ELSE IF snaps[i].timestamp < oldestTimestamp
         THEN OldestFrom(snaps, t, i + 1, i, snaps[i].timestamp)
  ELSE OldestFrom(snaps, t, i + 1, oldestIndex, oldestTimestamp)

\* MorphoStrategy.updateAPY at time t with the vault reporting
\* currentSharePrice; unsigned arithmetic is checked, so a negative yield
\* or a zero old price aborts the call.
updateAPY(a, currentSharePrice, t) ==
  IF Throttled(a, t) THEN Ok(a)
  ELSE
    LET idx == (a.currentSnapshotIndex + 1) % RingSize
        snaps == [a.yieldSnapshots EXCEPT
                    ![idx] = [timestamp |-> t,
                              sharePrice |-> currentSharePrice]]
        old == OldestFrom(snaps, t, 0, idx, t)
        oldestIndex == old[1]
        oldestTimestamp == old[2]
        a1 == [a EXCEPT !.currentSnapshotIndex = idx,
                        !.yieldSnapshots = snaps]
    IN IF oldestTimestamp < t /\ oldestIndex # idx
         THEN LET oldSharePrice == snaps[oldestIndex].sharePrice
                  timeElapsed == t - oldestTimestamp
              IN IF oldSharePrice = 0 THEN Revert(a)
                 ELSE LET ratio == (currentSharePrice * WAD) \div oldSharePrice
                      IN IF ratio < WAD THEN Revert(a)
                         ELSE Ok([a1 EXCEPT
                                    !.currentAPY =
                                      ((ratio - WAD) * YearDays * BPS)
                                        \div (timeElapsed * WAD),
                                    !.lastAPYUpdate = t])
       ELSE Ok([a1 EXCEPT !.lastAPYUpdate = t])

\* MorphoStrategy.getAPY
getAPY(a, token) == IF token # usdcToken THEN 0 ELSE a.currentAPY

\* The ERC-4626 vault's conversions at share price `price`.
convertToAssets(shares, price) == (shares * price) \div WAD
convertToShares(assets, price) == (assets * WAD) \div price
previewWithdraw(assets, price) == (assets * WAD + price - 1) \div price

\* MorphoStrategy.deposit: the tokens go from the caller through the adapter
\* into the vault, which mints shares to the adapter.
deposit(a, sender, token, amount, price, t) ==
  IF token # usdcToken \/ amount = 0 THEN Revert(a)
  ELSE LET r == updateAPY(a, price, t)
       IN IF ~r.ok THEN Revert(a)
          ELSE IF r.s.bal[token][sender] < amount THEN Revert(a)
          ELSE LET sharesMinted == convertToShares(amount, price)
               IN Ok([r.s EXCEPT
                        !.bal[token][sender] = @ - amount,
                        !.vaultShares = @ + sharesMinted,
                        !.totalDeposited = @ + amount,
                        !.userShares[sender] = @ + sharesMinted])

\* What morphoVault.withdraw returns: the shares it burned, as ERC-4626
\* has it, or the assets it sent, as the adapter reads it.
WithdrawReturns == {"shares", "assets"}

\* MorphoStrategy.withdraw
withdraw(a, sender, token, amount, price, wr, t) ==
  IF token # usdcToken \/ amount = 0 THEN Revert(a)
  ELSE LET r == updateAPY(a, price, t)
       IN IF ~r.ok THEN Revert(a)
          ELSE IF r.s.vaultShares = 0 THEN Revert(a)
          ELSE
            LET totalAssets == convertToAssets(r.s.vaultShares, price)
                userAssets == (totalAssets * r.s.userShares[sender])
                                \div r.s.vaultShares
                sharesToRedeem == previewWithdraw(amount, price)
                assetsWithdrawn ==
                  IF wr = "shares" THEN sharesToRedeem ELSE amount
            IN IF ~(amount <= userAssets) THEN Revert(a)
               ELSE IF ~(sharesToRedeem <= r.s.userShares[sender])
                      THEN Revert(a)
               ELSE IF r.s.totalDeposited < amount THEN Revert(a)
               ELSE IF r.s.bal[token][STRATEGY] + amount < assetsWithdrawn
                      THEN Revert(a)
               ELSE Ok([r.s EXCEPT
                          !.vaultShares = @ - sharesToRedeem,
                          !.totalDeposited = @ - amount,
                          !.userShares[sender] = @ - sharesToRedeem,
                          !.bal[token] =
                            [@ EXCEPT
                               ![STRATEGY] = @ + amount - assetsWithdrawn,
                               ![sender] = @ + assetsWithdrawn]])

\* MorphoStrategy.withdrawAll
withdrawAll(a, sender, user, price, t) ==
  IF ~(user = sender \/ IsOwner(sender)) THEN Revert(a)
  ELSE IF ~(a.userShares[user] > 0) THEN Revert(a)
  ELSE LET r == updateAPY(a, price, t)
       IN IF ~r.ok THEN Revert(a)
          ELSE LET assets == convertToAssets(r.s.userShares[user], price)
               IN IF r.s.totalDeposited < assets THEN Revert(a)
                  ELSE Ok([r.s EXCEPT
                             !.vaultShares = @ - r.s.userShares[user],
                             !.totalDeposited = @ - assets,
                             !.userShares[user] = 0,
                             !.bal[usdcToken][user] = @ + assets])

\* One transaction of the adapter: its effects if it succeeds.
AdapterCall(r, rec) ==
  /\ last.seq < MaxTx
  /\ r.ok
  /\ last' = [rec EXCEPT !.seq = last.seq + 1]
  /\ yieldSnapshots' = r.s.yieldSnapshots
  /\ currentSnapshotIndex' = r.s.currentSnapshotIndex
  /\ currentAPY' = r.s.currentAPY
  /\ lastAPYUpdate' = r.s.lastAPYUpdate
  /\ totalDeposited' = r.s.totalDeposited
  /\ userShares' = r.s.userShares
  /\ vaultShares' = r.s.vaultShares
  /\ bal' = r.s.bal
  /\ UNCHANGED <<storage, now, sharePrice, exec>>

\* Anyone calls updateAPY; the vault reports its current share price.
UpdateAPY ==
  \E c \in Depositors :
    AdapterCall(updateAPY(Adapter, sharePrice, now),
                [NoCall EXCEPT !.op = "updateAPY", !.caller = c])

Deposit ==
  \E c \in Depositors, t \in Tokens, a \in DepositAmounts :
    AdapterCall(deposit(Adapter, c, t, a, sharePrice, now),
                [NoCall EXCEPT !.op = "deposit", !.caller = c, !.token = t,
                               !.amount = a])

Withdraw ==
  \E c \in Depositors, t \in Tokens, a \in DepositAmounts,
     wr \in WithdrawReturns :
    AdapterCall(withdraw(Adapter, c, t, a, sharePrice, wr, now),
                [NoCall EXCEPT !.op = "withdraw", !.caller = c, !.token = t,
                               !.amount = a])

WithdrawAll ==
  \E c \in Depositors \cup {ADMIN}, u \in Depositors :
    AdapterCall(withdrawAll(Adapter, c, u, sharePrice, now),
                [NoCall EXCEPT !.op = "withdrawAll", !.caller = c,
                               !.user = u])

\* The vault's share price moves as the vault's own assets do.
VaultMoves ==
  /\ \E p \in SharePrices : p # sharePrice /\ sharePrice' = p
  /\ UNCHANGED <<chain, now, last, adapter, exec>>

\* block.timestamp advances between the adapter's transactions.
Elapse ==
  /\ \E d \in TickSteps : now + d <= MaxApyTime /\ now' = now + d
  /\ UNCHANGED <<chain, last, adapter, sharePrice, exec>>

NextApy ==
  \/ UpdateAPY
  \/ Deposit
  \/ Withdraw
  \/ WithdrawAll
  \/ VaultMoves
  \/ Elapse

SpecApy == Init /\ [][NextApy]_vars

\* ---- the APY estimate across the lookback window
\* The days at which the estimate is observed: the first MaxApyTime days
\* and the same number of days once the lookback window has passed.
ApyDays ==
  {t \in 1..(WindowDays + MaxApyTime) : t <= MaxApyTime \/ t > WindowDays}

\* block.timestamp advances by a day or by most of the window.
Age ==
  /\ \E d \in ApySteps : now + d \in ApyDays /\ now' = now + d
  /\ UNCHANGED <<chain, last, adapter, sharePrice, exec>>

NextRing ==
  \/ UpdateAPY
  \/ VaultMoves
  \/ Age

SpecRing == Init /\ [][NextRing]_vars

\* ---- the credit arithmetic over drawn inputs
\* The ledgers once the Debt Ledger is registered, X is supported, the
\* ratio has been set to one of CreditRatios and alice has staked one of
\* CreditStaked; createDebt and setCollateralRatio then act on it.
InitCredit ==
  /\ \E a \in CreditStaked :
       /\ stakes =
            [u \in EOA |-> [t \in Tokens |->
               IF u = "alice" /\ t = "X"
                 THEN [amount |-> a, lockedAmount |-> 0, lastUpdateTime |-> T0]
               ELSE ZeroPos]]
       /\ bal =
            [t \in Tokens |-> [h \in Holders |->
               IF h = "alice" /\ t = "X" THEN InitBal - a
               ELSE IF h = STAKING /\ t = "X" THEN a
               ELSE IF h \in Stakers \cup {PAY} THEN InitBal ELSE 0]]
  /\ supportedTokens = [t \in Tokens |-> t = "X"]
  /\ collateralRatio \in CreditRatios
  /\ zeroDebtContract = DEBT
  /\ yieldStrategy = Zero
  /\ userRewards = [u \in EOA |-> [t \in Tokens |-> 0]]
  /\ totalRewards = [t \in Tokens |-> 0]
  /\ lastRewardUpdate = [u \in EOA |-> [t \in Tokens |-> 0]]
  /\ debts = [i \in DebtIds |-> ZeroDebtInfo]
  /\ nextDebtId = 1
  /\ userDebts = [u \in EOA |-> <<>>]
  /\ merchantDebts = [u \in EOA |-> <<>>]
  /\ platformFee = InitPlatformFee
  /\ defaultPenalty = InitDefaultPenalty
  /\ minimumRepaymentPeriod = InitMinPeriod
  /\ maximumRepaymentPeriod = InitMaxPeriod
  /\ authorizedIntegrators = {}
  /\ now = T0
  /\ last = NoCall
  /\ yieldSnapshots =
       [i \in 0..(RingSize - 1) |->
          IF i = 0 THEN [timestamp |-> T0, sharePrice |-> WAD]
          ELSE NoSnapshot]
  /\ currentSnapshotIndex = 0
  /\ currentAPY = InitAPY
  /\ lastAPYUpdate = T0
  /\ totalDeposited = 0
  /\ userShares = [u \in EOA |-> 0]
  /\ vaultShares = 0
  /\ sharePrice = WAD
  /\ frames = <<>>
  /\ entered = {}

NextCredit ==
  \/ CreateDebt
  \/ SetCollateralRatio

SpecCredit == InitCredit /\ [][NextCredit]_vars

\* ---- the entry points statement by statement: each is cut at its
\* ---- external calls (token transfers, adapter calls) into segments, so
\* ---- that a callback made from inside an external call finds the storage
\* ---- as the statements before the call left it.
OwnSeg(r) == [ok |-> r.ok, s |-> r.s, ext |-> FALSE]
ExtSeg(r) == [ok |-> r.ok, s |-> r.s, ext |-> TRUE]

\* ZeroStaking.stake
stakeSeg(pc, s, sender, token, amount, so, apy, t) ==
  CASE pc = 1 ->
         OwnSeg(IF token \notin Tokens THEN Revert(s)
                ELSE IF ~s.supportedTokens[token] THEN Revert(s)
                ELSE IF ~(amount > 0) THEN Revert(s)
                ELSE Ok(UpdateRewards(s, sender, token, apy, t)))
    [] pc = 2 -> ExtSeg(Transfer(s, token, sender, STAKING, amount))
    [] pc = 3 ->
         IF s.yieldStrategy # Zero
           THEN ExtSeg(StrategyDeposit(s, token, amount, so))
         ELSE OwnSeg(Ok(s))
    [] pc = 4 ->
         OwnSeg(Ok([s EXCEPT !.stakes[sender][token] =
                               Credited(@, amount, t)]))

\* ZeroStaking.unstake
unstakeSeg(pc, s, sender, token, amount, so, apy, t) ==
  CASE pc = 1 ->
         LET p == s.stakes[sender][token]
         IN OwnSeg(IF ~(amount > 0) THEN Revert(s)
                   ELSE IF ~(p.amount >= amount) THEN Revert(s)
                   ELSE IF ~UnlockedCovers(p, amount) THEN Revert(s)
                   ELSE
                     LET s1 == UpdateRewards(s, sender, token, apy, t)
                     IN Ok([s1 EXCEPT
                              !.stakes[sender][token].amount = @ - amount,
                              !.stakes[sender][token].lastUpdateTime = t]))
    [] pc = 2 ->
         IF s.yieldStrategy # Zero
           THEN ExtSeg(StrategyWithdraw(s, token, amount, so))
         ELSE OwnSeg(Ok(s))
    [] pc = 3 -> ExtSeg(Transfer(s, token, STAKING, sender, amount))

\* ZeroStaking.liquidateCollateral
liquidateCollateralSeg(pc, s, sender, user, token, amount, recipient, so) ==
  CASE pc = 1 ->
         LET p == Pos(s, user, token)
         IN OwnSeg(IF ~OnlyZeroDebt(s, sender) THEN Revert(s)
                   ELSE IF ~(p.lockedAmount >= amount) THEN Revert(s)
                   ELSE IF p.amount < amount THEN Revert(s)
                   ELSE IF ~(user \in EOA /\ token \in Tokens) THEN Ok(s)
                   ELSE Ok([s EXCEPT !.stakes[user][token] =
                                       Seize(@, amount)]))
    [] pc = 2 ->
         IF s.yieldStrategy # Zero
           THEN ExtSeg(StrategyWithdraw(s, token, amount, so))
         ELSE OwnSeg(Ok(s))
    [] pc = 3 -> ExtSeg(Transfer(s, token, STAKING, recipient, amount))

\* The record createDebt and createDebtFor write once the payment is made.
DebtRecorded(s, borrower, merchant, paymentToken, paymentAmount, collateralToken, repaymentPeriod, t) ==
  LET debtId == s.nextDebtId
  IN [s EXCEPT
        !.nextDebtId = IdAfter(debtId),
        !.debts[debtId] =
          [borrower |-> borrower, merchant |-> merchant,
           token |-> paymentToken, amount |-> paymentAmount,
           collateralToken |-> collateralToken,
           collateralAmount |-> CollateralRequired(s, paymentAmount),
           repaymentDeadline |-> t + repaymentPeriod,
           penalty |-> s.defaultPenalty,
           repaid |-> FALSE, liquidated |-> FALSE],
        !.userDebts[borrower] = Append(@, debtId),
        !.merchantDebts[merchant] = Append(@, debtId)]

\* The checks of createDebt and createDebtFor up to and including the
\* lockCollateral call.
CheckedAndLocked(s, borrower, merchant, paymentAmount, collateralToken, repaymentPeriod) ==
  IF merchant = Zero THEN Revert(s)
  ELSE IF ~(paymentAmount > 0) THEN Revert(s)
  ELSE IF ~PeriodInRange(s, repaymentPeriod) THEN Revert(s)
  ELSE LET credit == getAvailableCredit(s, borrower, collateralToken)
       IN IF ~credit.ok THEN Revert(s)
          ELSE IF ~CreditCovers(credit.v, paymentAmount) THEN Revert(s)
          ELSE lockCollateral(s, DEBT, borrower, collateralToken,
                              CollateralRequired(s, paymentAmount))

\* ZeroDebt.createDebt
createDebtSeg(pc, s, sender, merchant, paymentToken, paymentAmount, collateralToken, repaymentPeriod, t) ==
  LET fee == PlatformFeeOf(s, paymentAmount)
  IN CASE pc = 1 ->
            OwnSeg(CheckedAndLocked(s, sender, merchant, paymentAmount,
                                    collateralToken, repaymentPeriod))
       [] pc = 2 ->
            ExtSeg(Transfer(s, paymentToken, sender, merchant,
                            paymentAmount - fee))
       [] pc = 3 ->
            IF fee > 0
              THEN ExtSeg(Transfer(s, paymentToken, sender, DEBT, fee))
            ELSE OwnSeg(Ok(s))
       [] pc = 4 ->
            OwnSeg(Ok(DebtRecorded(s, sender, merchant, paymentToken,
                                    paymentAmount, collateralToken,
                                    repaymentPeriod, t)))

\* ZeroDebt.createDebtFor
createDebtForSeg(pc, s, sender, borrower, merchant, paymentToken, paymentAmount, collateralToken, repaymentPeriod, t) ==
  LET fee == PlatformFeeOf(s, paymentAmount)
  IN CASE pc = 1 ->
            OwnSeg(IF ~IsAuthorized(s, sender) THEN Revert(s)
                   ELSE IF borrower = Zero THEN Revert(s)
                   ELSE CheckedAndLocked(s, borrower, merchant,
                                         paymentAmount, collateralToken,
                                         repaymentPeriod))
       [] pc = 2 ->
            ExtSeg(Transfer(s, paymentToken, DEBT, merchant,
                            paymentAmount - fee))
       [] pc = 3 ->
            OwnSeg(Ok(DebtRecorded(s, borrower, merchant, paymentToken,
                                    paymentAmount, collateralToken,
                                    repaymentPeriod, t)))

\* ZeroDebt.repayDebt
repayDebtSeg(pc, s, sender, debtId, t) ==
  LET debt == s.debts[debtId]
  IN CASE pc = 1 ->
            OwnSeg(IF ~IsBorrower(debt, sender) THEN Revert(s)
                   ELSE IF debt.repaid THEN Revert(s)
                   ELSE IF debt.liquidated THEN Revert(s)
                   ELSE Ok(s))
       [] pc = 2 ->
            ExtSeg(Transfer(s, debt.token, sender, DEBT,
                            RepaymentAmount(debt, t)))
       [] pc = 3 ->
            LET r == unlockCollateral(s, DEBT, debt.borrower,
                                      debt.collateralToken,
                                      UnlockedOnRepay(debt))
            IN OwnSeg(IF ~r.ok THEN r
                      ELSE Ok([r.s EXCEPT !.debts[debtId].repaid = TRUE]))

\* ZeroDebt.liquidateDebt, the liquidateCollateral call it makes included
liquidateDebtSeg(pc, s, sender, debtId, so, t) ==
  LET debt == s.debts[debtId]
  IN CASE pc = 1 ->
            OwnSeg(IF debt.repaid THEN Revert(s)
                   ELSE IF debt.liquidated THEN Revert(s)
                   ELSE IF ~DeadlinePassed(debt, t) THEN Revert(s)
                   ELSE Ok(s))
       [] pc \in 2..4 ->
            liquidateCollateralSeg(pc - 1, s, DEBT, debt.borrower,
                                   debt.collateralToken,
                                   debt.collateralAmount, DEBT, so)
       [] pc = 5 ->
            OwnSeg(Ok([s EXCEPT !.debts[debtId] = MarkLiquidated(@)]))
       [] pc = 6 ->
            IF MerchantShare(debt) > 0
              THEN ExtSeg(Transfer(s, debt.token, DEBT, debt.merchant,
                                   MerchantShare(debt)))
            ELSE OwnSeg(Ok(s))

\* ZeroDebt.withdrawFees
withdrawFeesSeg(pc, s, sender, token, recipient) ==
  CASE pc = 1 ->
         OwnSeg(IF ~IsOwner(sender) THEN Revert(s)
                ELSE IF recipient = Zero THEN Revert(s)
                ELSE Ok(s))
    [] pc = 2 ->
         IF s.bal[token][DEBT] > 0
           THEN ExtSeg(Transfer(s, token, DEBT, recipient,
                                s.bal[token][DEBT]))
         ELSE OwnSeg(Ok(s))

SegCount(op) ==
  CASE op = "stake" -> 4
    [] op = "unstake" -> 3
    [] op = "liquidateCollateral" -> 3
    [] op = "createDebt" -> 4
    [] op = "createDebtFor" -> 3
    [] op = "repayDebt" -> 3
    [] op = "liquidateDebt" -> 6
    [] op = "withdrawFees" -> 2

\* Segment pc of the call rec, run on storage s.
Segment(rec, pc, s, so, apy, t) ==
  CASE rec.op = "stake" ->
         stakeSeg(pc, s, rec.caller, rec.token, rec.amount, so, apy, t)
    [] rec.op = "unstake" ->
         unstakeSeg(pc, s, rec.caller, rec.token, rec.amount, so, apy, t)
    [] rec.op = "liquidateCollateral" ->
         liquidateCollateralSeg(pc, s, rec.caller, rec.user, rec.token,
                                rec.amount, rec.caller, so)
    [] rec.op = "createDebt" ->
         createDebtSeg(pc, s, rec.caller, rec.user, rec.payToken,
                       rec.amount, rec.token, rec.period, t)
    [] rec.op = "createDebtFor" ->
         createDebtForSeg(pc, s, rec.caller, rec.borrower, rec.user,
                          rec.payToken, rec.amount, rec.token, rec.period, t)
    [] rec.op = "repayDebt" -> repayDebtSeg(pc, s, rec.caller, rec.id, t)
    [] rec.op = "liquidateDebt" ->
         liquidateDebtSeg(pc, s, rec.caller, rec.id, so, t)
    [] rec.op = "withdrawFees" ->
         withdrawFeesSeg(pc, s, rec.caller, rec.token, rec.user)

\* The contract whose nonReentrant modifier the entry point carries.
NonReentrant(op) ==
  CASE op \in {"stake", "unstake"} -> {STAKING}
    [] op \in {"createDebt", "createDebtFor", "repayDebt", "liquidateDebt"}
         -> {DEBT}
    [] OTHER -> {}

\* The calls made in SpecRe, as transactions and from inside callbacks.
Entries ==
  {[NoCall EXCEPT !.op = op, !.caller = c, !.token = t, !.amount = a] :
      op \in {"stake", "unstake"}, c \in Stakers, t \in Supportable,
      a \in LockAmounts}
  \cup {[NoCall EXCEPT !.op = "liquidateCollateral", !.caller = c,
                        !.user = u, !.token = t, !.amount = a] :
           c \in {"bob"}, u \in Stakers, t \in Supportable,
           a \in SeizeAmounts}
  \cup {[NoCall EXCEPT !.op = "createDebt", !.caller = c, !.user = "shop",
                        !.token = t, !.amount = a, !.payToken = t,
                        !.period = InitMinPeriod] :
           c \in Stakers, t \in Supportable, a \in BorrowAmounts}
  \cup {[NoCall EXCEPT !.op = "createDebtFor", !.caller = c, !.user = "shop",
                        !.token = t, !.amount = a, !.payToken = t,
                        !.period = InitMinPeriod, !.borrower = b] :
           c \in Integrators, b \in Stakers, t \in Supportable,
           a \in BorrowAmounts}
  \cup {[NoCall EXCEPT !.op = op, !.caller = c, !.id = id] :
           op \in {"repayDebt", "liquidateDebt"}, c \in Stakers,
           id \in 1..MaxDebtId}
  \cup {[NoCall EXCEPT !.op = "withdrawFees", !.caller = ADMIN,
                        !.user = ADMIN, !.token = t] : t \in Supportable}

Top == frames[Len(frames)]
Front == SubSeq(frames, 1, Len(frames) - 1)

\* A call arrives: a transaction, or a call that re-enters the innermost
\* frame's entry point from inside the external call that frame is waiting
\* in. The nonReentrant modifier rejects it while its contract's status is
\* ENTERED.
Enter ==
  \E rec \in Entries :
    /\ Len(frames) < MaxDepth
    /\ IF frames = <<>> THEN last.seq < MaxTx
       ELSE Top.inCall /\ rec.op = Top.rec.op
    /\ rec.op \in {"createDebt", "createDebtFor"} => nextDebtId <= MaxDebtId
    /\ NonReentrant(rec.op) \cap entered = {}
    /\ frames' = Append(frames,
                        [rec |-> [rec EXCEPT !.id = IF rec.id = 0
                                                     THEN nextDebtId ELSE @],
                         pc |-> 1, inCall |-> FALSE, called |-> FALSE,
                         snap |-> State, was |-> entered])
    /\ entered' = entered \cup NonReentrant(rec.op)
    /\ UNCHANGED <<chain, now, last, adapter, sharePrice>>

\* The innermost call runs its next segment, which makes no external call.
Own ==
  /\ frames # <<>> /\ ~Top.inCall /\ Top.pc <= SegCount(Top.rec.op)
  /\ \E so \in Outcomes, ap \in ReportedAPYs :
       LET r == Segment(Top.rec, Top.pc, State, so, ap, now)
       IN /\ r.ok /\ ~r.ext
          /\ Apply(r.s)
          /\ frames' = [frames EXCEPT ![Len(frames)].pc = @ + 1]
  /\ UNCHANGED <<now, last, adapter, sharePrice, entered>>

\* The innermost call makes its next external call; control is outside.
CallOut ==
  /\ frames # <<>> /\ ~Top.inCall /\ Top.pc <= SegCount(Top.rec.op)
  /\ \E so \in Outcomes, ap \in ReportedAPYs :
       LET r == Segment(Top.rec, Top.pc, State, so, ap, now)
       IN /\ r.ok /\ r.ext
          /\ Apply(r.s)
          /\ frames' = [frames EXCEPT ![Len(frames)].inCall = TRUE,
                                      ![Len(frames)].called = TRUE]
  /\ UNCHANGED <<now, last, adapter, sharePrice, entered>>

\* The external call returns.
CallBack ==
  /\ frames # <<>> /\ Top.inCall
  /\ frames' = [frames EXCEPT ![Len(frames)].inCall = FALSE,
                              ![Len(frames)].pc = @ + 1]
  /\ UNCHANGED <<chain, now, last, adapter, sharePrice, entered>>

\* The innermost call aborts, on a failed check or a failed external call:
\* everything it did is undone and its guard is released.
Abort ==
  /\ frames # <<>>
  /\ \/ Top.inCall
     \/ /\ Top.pc <= SegCount(Top.rec.op)
        /\ \E so \in Outcomes, ap \in ReportedAPYs :
             ~Segment(Top.rec, Top.pc, State, so, ap, now).ok
  /\ Apply(Top.snap)
  /\ frames' = Front
  /\ entered' = Top.was
  /\ UNCHANGED <<now, last, adapter, sharePrice>>

\* The innermost call exits normally; the outermost one completes the
\* transaction.
Return ==
  /\ frames # <<>> /\ ~Top.inCall /\ Top.pc > SegCount(Top.rec.op)
  /\ frames' = Front
  /\ entered' = Top.was
  /\ last' = IF Len(frames) = 1
               THEN [Top.rec EXCEPT !.seq = last.seq + 1]
             ELSE last
  /\ UNCHANGED <<chain, now, adapter, sharePrice>>

NextRe ==
  \/ Enter
  \/ Own
  \/ CallOut
  \/ CallBack
  \/ Abort
  \/ Return
  \/ AddSupportedToken
  \/ SetZeroDebtContract
  \/ LockCollateral
  \/ AuthorizeIntegrator
  \/ FundDebtLedger
  \/ Tick

SpecRe == Init /\ [][NextRe]_vars

\* Administration and reward claims: every owner-only entry point of the
\* two ledgers, called by the owner and by somebody else, next to the
\* staking, borrowing and claiming that give them something to act on.
NextAdmin ==
  \/ Stake
  \/ CreateDebt
  \/ ClaimRewards
  \/ SetZeroDebtContract
  \/ SetYieldStrategy
  \/ AddSupportedToken
  \/ RemoveSupportedToken
  \/ SetCollateralRatio
  \/ SetPlatformFee
  \/ SetDefaultPenalty
  \/ SetMinimumRepaymentPeriod
  \/ SetMaximumRepaymentPeriod
  \/ AuthorizeIntegrator
  \/ DeauthorizeIntegrator
  \/ WithdrawFees

SpecAdmin == Init /\ [][NextAdmin]_vars

\* ------------------------------------------------------------- claims ---
\* A step in which the transaction `op` succeeded.
Acted(op) == last' # last /\ last'.op = op

Free(p) == p.amount - p.lockedAmount

Open(debt) == ~debt.repaid /\ ~debt.liquidated

\* C1: in every reachable state, for every (user, asset), locked <= staked.
LockedLeStaked ==
  \A u \in EOA, t \in Tokens :
    stakes[u][t].lockedAmount <= stakes[u][t].amount

\* C1 witness: after an unstake of all free balance the position is locked
\* to the last unit (locked = staked > 0).
LockedLeStakedWitness ==
  /\ last.op = "unstake"
  /\ stakes["alice"]["X"].lockedAmount = 150
  /\ stakes["alice"]["X"].amount = 150

\* C2: a debt only moves Open -> Repaid or Open -> Liquidated: a repay or
\* liquidate succeeds only on an Open debt and leaves it with exactly the
\* one flag of its transition set; a settled debt's record never changes
\* again; no debt is ever both repaid and liquidated.
DebtStateMachine ==
  [][ /\ \A id \in DebtIds :
           /\ ~(debts'[id].repaid /\ debts'[id].liquidated)
           /\ ~Open(debts[id]) => debts'[id] = debts[id]
      /\ Acted("repayDebt") =>
           /\ Open(debts[last'.id])
           /\ debts'[last'.id].repaid /\ ~debts'[last'.id].liquidated
      /\ Acted("liquidateDebt") =>
           /\ Open(debts[last'.id])
           /\ debts'[last'.id].liquidated /\ ~debts'[last'.id].repaid
    ]_vars

\* C2 witness: debt 1 was liquidated after its deadline; a late repay by
\* the borrower and a second liquidate are both rejected.
DebtStateMachineWitness ==
  /\ last.op = "liquidateDebt"
  /\ debts[1].liquidated /\ ~debts[1].repaid
  /\ now > debts[1].repaymentDeadline
  /\ ~repayDebt(State, debts[1].borrower, 1, now).ok
  /\ ~liquidateDebt(State, "bob", 1, "exact", now).ok

\* C3: unstake succeeds only for amount <= staked - locked (no step is a
\* successful unstake of more than the free balance), and then staked goes
\* down by the amount and locked stays.
UnstakeWithinFree ==
  [][ /\ Acted("unstake") =>
           LET c == last'.caller
               t == last'.token
           IN /\ last'.amount <= Free(stakes[c][t])
              /\ stakes'[c][t].amount = stakes[c][t].amount - last'.amount
              /\ stakes'[c][t].lockedAmount = stakes[c][t].lockedAmount
    ]_vars

\* C3 witness: after an unstake, 150 staked of which 1 is locked; an
\* unstake of the 150 staked (more than the 149 free) is rejected.
UnstakeWithinFreeWitness ==
  /\ last.op = "unstake"
  /\ stakes["alice"]["X"].amount = 150
  /\ stakes["alice"]["X"].lockedAmount = 1
  /\ ~unstake(State, "alice", "X", 150, "exact", 0, now).ok

\* C4: lockCollateral, unlockCollateral and liquidateCollateral succeed
\* only for the registered Debt Ledger address (no step is a successful
\* call of them by anyone else); a locked amount changes only in a step
\* of the registered ledger (a direct call of it, or a Debt Ledger
\* operation while the Debt Ledger is the registered address).
Privileged == {"lockCollateral", "unlockCollateral", "liquidateCollateral"}
DebtOps == {"createDebt", "repayDebt", "liquidateDebt"}

OnlyRegisteredLedger ==
  [][ /\ (last' # last /\ last'.op \in Privileged) =>
           last'.caller = zeroDebtContract
      /\ (\E u \in EOA, t \in Tokens :
            stakes'[u][t].lockedAmount # stakes[u][t].lockedAmount) =>
           \/ last'.op \in Privileged /\ last'.caller = zeroDebtContract
           \/ last'.op \in DebtOps /\ zeroDebtContract = DEBT
    ]_vars

\* C4 witness: bob is the registered ledger and has locked 150 of alice's
\* 300; a further lock by bob would succeed, the same call by the
\* administrator or by alice herself is rejected.
OnlyRegisteredLedgerWitness ==
  /\ zeroDebtContract = "bob"
  /\ last.op = "lockCollateral" /\ last.caller = "bob"
  /\ stakes["alice"]["X"].lockedAmount = 150
  /\ lockCollateral(State, "bob", "alice", "X", 150).ok
  /\ ~lockCollateral(State, ADMIN, "alice", "X", 150).ok
  /\ ~lockCollateral(State, "alice", "alice", "X", 150).ok
  /\ ~lockCollateral(State, "alice", "alice", "X", 150).ok
  /\ ~unlockCollateral(State, "alice", "alice", "X", 150).ok

\* C5: when the transaction right after a successful createDebt is the
\* repay of that debt, no later than its deadline, the borrower's staked,
\* locked and free balance in the collateral asset are what createDebt
\* found, and the repay moves exactly paymentAmount from the borrower to
\* the Debt Ledger.
RoundTrip ==
  [][ ( /\ last.op = "createDebt"
        /\ Acted("repayDebt")
        /\ last'.id = last.id
        /\ now <= debts[last.id].repaymentDeadline ) =>
        LET b == last.caller
            ct == last.token
            pt == last.payToken
        IN /\ stakes'[b][ct].amount = last.prePos.amount
           /\ stakes'[b][ct].lockedAmount = last.prePos.lockedAmount
           /\ Free(stakes'[b][ct]) = Free(last.prePos)
           /\ bal'[pt][b] = bal[pt][b] - last.amount
           /\ bal'[pt][DEBT] = bal[pt][DEBT] + last.amount
    ]_vars

\* C5 witness: the fifth transaction repaid debt 1 of 100 in time, right
\* after the fourth created it; all 150 staked are free again.
RoundTripWitness ==
  /\ last.op = "repayDebt" /\ last.id = 1 /\ last.seq = 5
  /\ yieldStrategy = Zero
  /\ debts[1].repaid /\ debts[1].amount = 100
  /\ now <= debts[1].repaymentDeadline
  /\ stakes["alice"]["X"].amount = 150
  /\ stakes["alice"]["X"].lockedAmount = 0

\* C6: a successful createDebt records the next id as an Open debt of the
\* caller with collateralAmount = floor(paymentAmount * ratio / 10000) and
\* deadline = now + period, raises the borrower's locked by that amount
\* (staked unchanged), pays the merchant paymentAmount - fee and the Debt
\* Ledger fee = floor(paymentAmount * feeBps / 10000), all from the caller.
CreateDebtEffects ==
  [][ Acted("createDebt") =>
        LET c == last'.caller
            m == last'.user
            pt == last'.payToken
            pa == last'.amount
            ct == last'.token
            id == last'.id
            col == (pa * collateralRatio) \div BPS
            fee == (pa * platformFee) \div BPS
        IN /\ id = nextDebtId /\ nextDebtId' = nextDebtId + 1
           /\ debts'[id] =
                [borrower |-> c, merchant |-> m, token |-> pt, amount |-> pa,
                 collateralToken |-> ct, collateralAmount |-> col,
                 repaymentDeadline |-> now + last'.period,
                 penalty |-> defaultPenalty, repaid |-> FALSE,
                 liquidated |-> FALSE]
           /\ stakes'[c][ct].lockedAmount = stakes[c][ct].lockedAmount + col
           /\ stakes'[c][ct].amount = stakes[c][ct].amount
           /\ bal'[pt][DEBT] = bal[pt][DEBT] + fee
           /\ IF m = c THEN bal'[pt][c] = bal[pt][c] - fee
              ELSE /\ bal'[pt][m] = bal[pt][m] + (pa - fee)
                   /\ bal'[pt][c] = bal[pt][c] - pa
    ]_vars

\* C6 witness: payment 100 at ratio 15000 and fee 100 bps: 150 locked, the
\* merchant holds 99 and the Debt Ledger 1.
CreateDebtEffectsWitness ==
  /\ last.op = "createDebt" /\ last.amount = 100 /\ last.payToken = "X"
  /\ collateralRatio = 15000 /\ platformFee = 100
  /\ debts[last.id].collateralAmount = 150
  /\ stakes["alice"]["X"].lockedAmount = 150
  /\ bal["X"]["shop"] = 99 /\ bal["X"][DEBT] = 1

\* C7: in every reachable state a liquidate call succeeds only on an Open
\* debt with now > deadline (at now <= deadline it is rejected), and
\* whether it succeeds does not depend on who calls.
LiquidateOnlyAfterDeadline ==
  \A id \in DebtIds, so \in Outcomes :
    LET oks == {liquidateDebt(State, c, id, so, now).ok : c \in EOA}
    IN /\ TRUE \in oks => Open(debts[id]) /\ now > debts[id].repaymentDeadline
       /\ now <= debts[id].repaymentDeadline => oks = {FALSE}
       /\ Cardinality(oks) = 1

\* C7 witness: bob, who is neither borrower, merchant nor administrator,
\* has liquidated alice's debt to shop after its deadline.
LiquidateOnlyAfterDeadlineWitness ==
  /\ last.op = "liquidateDebt" /\ last.caller = "bob"
  /\ debts[last.id].liquidated
  /\ debts[last.id].borrower = "alice" /\ debts[last.id].merchant = "shop"
  /\ now > debts[last.id].repaymentDeadline

\* C8: a successful liquidate lowers staked and locked of the borrower's
\* collateral position by the debt's collateralAmount, moves that amount
\* out of the Collateral Ledger's custody into the Debt Ledger (which pays
\* the merchant's penalty share from its balance), and marks the debt
\* Liquidated.
LiquidateEffects ==
  [][ Acted("liquidateDebt") =>
        LET d == debts[last'.id]
            b == d.borrower
            ct == d.collateralToken
            col == d.collateralAmount
            share == ((d.amount * d.penalty) \div BPS) \div 2
        IN /\ stakes'[b][ct].amount = stakes[b][ct].amount - col
           /\ stakes'[b][ct].lockedAmount = stakes[b][ct].lockedAmount - col
           /\ debts'[last'.id] = [d EXCEPT !.liquidated = TRUE]
           /\ bal'[ct][STAKING] + bal'[ct][STRATEGY]
                = bal[ct][STAKING] + bal[ct][STRATEGY] - col
           /\ bal'[ct][DEBT]
                = bal[ct][DEBT] + col - (IF d.token = ct THEN share ELSE 0)
    ]_vars

\* C8 witness: debt 1 (payment 100, collateral 150 of 150 staked) was
\* liquidated: nothing is staked or locked any more, the Debt Ledger holds
\* fee 1 + 150 - 2 paid to the merchant.
LiquidateEffectsWitness ==
  /\ last.op = "liquidateDebt" /\ last.id = 1
  /\ debts[1].liquidated /\ debts[1].collateralAmount = 150
  /\ stakes["alice"]["X"].amount = 0
  /\ stakes["alice"]["X"].lockedAmount = 0
  /\ bal["X"][DEBT] = 149 /\ bal["X"]["shop"] = 101

\* C9: a successful repay moves from the caller to the Debt Ledger
\* paymentAmount, plus floor(paymentAmount * penalty / 10000) at the rate
\* recorded in the debt when now > deadline; lowers the borrower's locked
\* by the debt's collateralAmount, leaves staked, and marks the debt Repaid.
RepayEffects ==
  [][ Acted("repayDebt") =>
        LET d == debts[last'.id]
            c == last'.caller
            b == d.borrower
            ct == d.collateralToken
            due == IF now > d.repaymentDeadline
                     THEN d.amount + ((d.amount * d.penalty) \div BPS)
                   ELSE d.amount
        IN /\ bal'[d.token][c] = bal[d.token][c] - due
           /\ bal'[d.token][DEBT] = bal[d.token][DEBT] + due
           /\ stakes'[b][ct].lockedAmount
                = stakes[b][ct].lockedAmount - d.collateralAmount
           /\ stakes'[b][ct].amount = stakes[b][ct].amount
           /\ debts'[last'.id] = [d EXCEPT !.repaid = TRUE]
    ]_vars

\* C9 witness: debt 1 of 100, recorded penalty 500 bps, was repaid late
\* after the default penalty was set to 0: the Debt Ledger holds fee 1 +
\* 105, and the 150 locked are released.
RepayEffectsWitness ==
  /\ last.op = "repayDebt" /\ last.id = 1
  /\ now > debts[1].repaymentDeadline
  /\ debts[1].repaid /\ debts[1].amount = 100 /\ debts[1].token = "X"
  /\ debts[1].penalty = 500 /\ defaultPenalty = 0
  /\ bal["X"][DEBT] = 106
  /\ stakes["alice"]["X"].amount = 150
  /\ stakes["alice"]["X"].lockedAmount = 0

\* C10: repay succeeds only for the borrower recorded in the debt: no step
\* is a successful repay by anyone else.
RepayOnlyBorrower ==
  [][ Acted("repayDebt") => last'.caller = debts[last'.id].borrower ]_vars

\* C10 witness: alice's debt 1 to shop is Open with 150 locked; a repay by
\* alice would succeed, the same call by the merchant, by bob or by the
\* administrator is rejected.
RepayOnlyBorrowerWitness ==
  /\ Open(debts[1]) /\ debts[1].borrower = "alice"
  /\ debts[1].merchant = "shop"
  /\ stakes["alice"]["X"].lockedAmount = 150
  /\ repayDebt(State, "alice", 1, now).ok
  /\ ~repayDebt(State, "shop", 1, now).ok
  /\ ~repayDebt(State, "bob", 1, now).ok
  /\ ~repayDebt(State, ADMIN, 1, now).ok

\* ------------------------------------------------ claims C11 - C20 -----
\* A step in which createDebt or createDebtFor succeeded, and its borrower.
Created == last' # last /\ last'.op \in {"createDebt", "createDebtFor"}

BorrowerOf(rec) == IF rec.op = "createDebt" THEN rec.caller ELSE rec.borrower

\* C11: createDebt and createDebtFor succeed only when the borrower's
\* available credit floor((staked - locked) * 10000 / ratio) in the
\* collateral asset is at least paymentAmount: no step creates a debt
\* with less credit (a rejected call changes nothing).
CreditGate ==
  [][ Created =>
        LET p == stakes[BorrowerOf(last')][last'.token]
        IN ((p.amount - p.lockedAmount) * BPS) \div collateralRatio
             >= last'.amount
    ]_vars

\* C11 witness: at ratio 15001 alice's 150 free give credit 99: a debt of
\* 100 is rejected for her and for the authorized integrator, although
\* the 150 of collateral it needs could be locked and a debt of 1 is
\* accepted; nothing is locked and no id is used.
CreditGateWitness ==
  /\ collateralRatio = 15001 /\ zeroDebtContract = DEBT
  /\ PAY \in authorizedIntegrators
  /\ stakes["alice"]["X"].amount = 150
  /\ stakes["alice"]["X"].lockedAmount = 0
  /\ nextDebtId = 1
  /\ getAvailableCredit(State, "alice", "X").v = 99
  /\ lockCollateral(State, DEBT, "alice", "X", 150).ok
  /\ ~createDebt(State, "alice", "shop", "X", 100, "X", 1, now).ok
  /\ ~createDebtFor(State, PAY, "alice", "shop", "X", 100, "X", 1, now).ok
  /\ createDebt(State, "alice", "shop", "X", 1, "X", 1, now).ok

\* C12: in every reachable state getAvailableCredit(user, asset) returns
\* the integer quotient of (staked - locked) * 10000 by the collateral
\* ratio, that is the one v with v * ratio <= (staked - locked) * 10000 <
\* (v + 1) * ratio; on 1000 staked, nothing locked, ratio 15000 it is 666.
AvailableCreditValue ==
  /\ \A u \in EOA, t \in Tokens :
       LET r == getAvailableCredit(State, u, t)
           free == stakes[u][t].amount - stakes[u][t].lockedAmount
       IN /\ r.ok
          /\ r.v * collateralRatio <= free * BPS
          /\ free * BPS < (r.v + 1) * collateralRatio
  /\ getAvailableCredit(
       [State EXCEPT !.collateralRatio = 15000,
                     !.stakes["alice"]["X"] =
                        [amount |-> 1000, lockedAmount |-> 0,
                         lastUpdateTime |-> now]],
       "alice", "X").v = 666

\* C12 witness: 300 staked, 150 locked by a debt, ratio raised to 15001:
\* the credit is floor(1500000 / 15001) = 99.
AvailableCreditValueWitness ==
  /\ collateralRatio = 15001
  /\ stakes["alice"]["X"].amount = 300
  /\ stakes["alice"]["X"].lockedAmount = 150
  /\ Open(debts[1]) /\ debts[1].collateralAmount = 150
  /\ getAvailableCredit(State, "alice", "X").v = 99

\* C13: in every reachable state, for createDebt and createDebtFor alike,
\* a period one below the minimum or one above the maximum is rejected,
\* and a period equal to the minimum or to the maximum is accepted
\* whenever a period strictly inside the range is.
PeriodBoundary ==
  \A pt \in Tokens, pa \in PayAmounts, ct \in Tokens :
    LET lo == minimumRepaymentPeriod
        hi == maximumRepaymentPeriod
        cd(per) == createDebt(State, "alice", "shop", pt, pa, ct, per, now).ok
        cf(per) == createDebtFor(State, PAY, "alice", "shop", pt, pa, ct,
                                 per, now).ok
    IN /\ ~cd(lo - 1) /\ ~cd(hi + 1)
       /\ ~cf(lo - 1) /\ ~cf(hi + 1)
       /\ lo < hi =>
            /\ cd(lo) = cd(lo + 1) /\ cd(hi) = cd(hi - 1)
            /\ cf(lo) = cf(lo + 1) /\ cf(hi) = cf(hi - 1)

\* C13 witness: the integrator has created a debt of 1 with the maximum
\* period 30; from here both entry points accept periods 1 and 30 and
\* reject 0 and 31, and nothing but debt 1 is recorded.
PeriodBoundaryWitness ==
  /\ last.op = "createDebtFor" /\ last.period = maximumRepaymentPeriod
  /\ Open(debts[1]) /\ debts[1].repaymentDeadline = now + 30
  /\ nextDebtId = 2
  /\ \A per \in {1, 30} :
       /\ createDebt(State, "alice", "shop", "X", 1, "X", per, now).ok
       /\ createDebtFor(State, PAY, "alice", "shop", "X", 1, "X", per,
                        now).ok
  /\ \A per \in {0, 31} :
       /\ ~createDebt(State, "alice", "shop", "X", 1, "X", per, now).ok
       /\ ~createDebtFor(State, PAY, "alice", "shop", "X", 1, "X", per,
                         now).ok

\* C14: a step in which no transaction succeeded (a rejected call, or time
\* passing) leaves every position, every debt record, nextDebtId and every
\* balance as it was; and a transaction whose asset transfer cannot be
\* completed does not succeed: createDebt only with the payment in the
\* borrower's balance, createDebtFor only with the merchant's payment in
\* the Debt Ledger's, repay only with the amount due in the caller's,
\* liquidate only with the merchant's share in the Debt Ledger's once the
\* collateral has arrived.
AllOrNothing ==
  [][ /\ last' = last => UNCHANGED <<stakes, debts, nextDebtId, bal>>
      /\ Acted("createDebt") =>
           bal[last'.payToken][last'.caller] >= last'.amount
      /\ Acted("createDebtFor") =>
           bal[last'.payToken][DEBT]
             >= last'.amount - ((last'.amount * platformFee) \div BPS)
      /\ Acted("repayDebt") =>
           LET d == debts[last'.id]
           IN bal[d.token][last'.caller]
                >= d.amount + (IF now > d.repaymentDeadline
                                 THEN (d.amount * d.penalty) \div BPS
                               ELSE 0)
      /\ Acted("liquidateDebt") =>
           LET d == debts[last'.id]
           IN bal[d.token][DEBT]
                + (IF d.token = d.collateralToken THEN d.collateralAmount
                   ELSE 0)
                >= ((d.amount * d.penalty) \div BPS) \div 2
    ]_vars

\* C14 witness: alice has spent her whole balance (300 staked, 100 paid
\* for debt 1). A second debt of 1 passes the credit check and its lock of
\* 1 alone would succeed, but the payment cannot be made: createDebt is
\* rejected; so is the repay of debt 1, which stays Open with 150 locked.
AllOrNothingWitness ==
  /\ last.op = "createDebt" /\ last.id = 1
  /\ bal["X"]["alice"] = 0
  /\ Open(debts[1]) /\ debts[1].amount = 100 /\ debts[1].token = "X"
  /\ stakes["alice"]["X"].amount = 300
  /\ stakes["alice"]["X"].lockedAmount = 150
  /\ getAvailableCredit(State, "alice", "X").v >= 1
  /\ lockCollateral(State, DEBT, "alice", "X", 1).ok
  /\ ~createDebt(State, "alice", "shop", "X", 1, "X", 1, now).ok
  /\ ~repayDebt(State, "alice", 1, now).ok

\* C15: no step changes the collateralAmount of a recorded debt (neither
\* setCollateralRatio, nor another debt's creation or settlement, nor a
\* stake or unstake); repay lowers the borrower's locked, and liquidate
\* the borrower's locked and staked, by exactly that recorded amount.
CollateralFixed ==
  [][ /\ \A id \in DebtIds :
           debts[id].borrower # Zero =>
             debts'[id].collateralAmount = debts[id].collateralAmount
      /\ (last' # last /\ last'.op \in {"repayDebt", "liquidateDebt"}) =>
           LET d == debts[last'.id]
               p == stakes[d.borrower][d.collateralToken]
               q == stakes'[d.borrower][d.collateralToken]
           IN /\ q.lockedAmount = p.lockedAmount - d.collateralAmount
              /\ q.amount = IF last'.op = "repayDebt" THEN p.amount
                            ELSE p.amount - d.collateralAmount
    ]_vars

\* C15 witness: debt 1 of 100 locked 150 at ratio 15000; the ratio was
\* then lowered to 10000, and the repay still released the 150.
CollateralFixedWitness ==
  /\ last.op = "repayDebt" /\ last.id = 1
  /\ collateralRatio = 10000
  /\ debts[1].repaid /\ debts[1].amount = 100
  /\ debts[1].collateralAmount = 150
  /\ stakes["alice"]["X"].amount = 150
  /\ stakes["alice"]["X"].lockedAmount = 0

\* C16: in every reachable state a stake of an unsupported asset or of
\* amount 0 is rejected; a stake that succeeds raises the caller's staked
\* by exactly amount and leaves locked; and while no adapter is configured
\* a stake of a supported asset with amount > 0 that the caller holds
\* succeeds, whatever an adapter would have answered, and the amount
\* stays in the ledger's own balance.
StakeAccepted ==
  \A c \in Stakers, t \in Tokens, a \in StakeAmounts,
     so \in {"revert", "exact"}, apy \in ReportedAPYs :
    LET r == stake(State, c, t, a, so, apy, now)
    IN /\ (~supportedTokens[t] \/ a = 0) => ~r.ok
       /\ r.ok =>
            /\ r.s.stakes[c][t].amount = stakes[c][t].amount + a
            /\ r.s.stakes[c][t].lockedAmount = stakes[c][t].lockedAmount
       /\ (yieldStrategy = Zero /\ supportedTokens[t] /\ a > 0
              /\ bal[t][c] >= a) =>
            /\ r.ok
            /\ r.s.bal[t][STAKING] = bal[t][STAKING] + a
            /\ r.s.bal[t][STRATEGY] = bal[t][STRATEGY]

\* C16 witness: with no adapter configured alice has staked 150 of X: the
\* ledger holds them itself; a stake of the unsupported Y or of 0 is
\* rejected.
StakeAcceptedWitness ==
  /\ last.op = "stake" /\ last.amount = 150 /\ yieldStrategy = Zero
  /\ stakes["alice"]["X"].amount = 150
  /\ bal["X"][STAKING] = 150 /\ bal["X"][STRATEGY] = 0
  /\ ~supportedTokens["Y"]
  /\ ~stake(State, "alice", "Y", 150, "exact", 0, now).ok
  /\ ~stake(State, "alice", "X", 0, "exact", 0, now).ok

\* C17: in every reachable state, removing an asset from the supported
\* set leaves every position as it is and makes every stake of the asset
\* fail, while unstake, lockCollateral, unlockCollateral and
\* liquidateCollateral on it succeed after the removal exactly when they
\* would have succeeded without it.
RemovalKeepsPositions ==
  \A t \in Tokens :
    LET rm == removeSupportedToken(State, ADMIN, t)
        zd == zeroDebtContract
    IN /\ rm.ok /\ rm.s.stakes = stakes /\ rm.s.bal = bal
       /\ \A c \in Stakers, a \in StakeAmounts \cup LockAmounts :
            /\ ~stake(rm.s, c, t, a, "exact", 0, now).ok
            /\ lockCollateral(rm.s, zd, c, t, a).ok
                 = lockCollateral(State, zd, c, t, a).ok
            /\ unlockCollateral(rm.s, zd, c, t, a).ok
                 = unlockCollateral(State, zd, c, t, a).ok
            /\ \A so \in Outcomes :
                 /\ unstake(rm.s, c, t, a, so, 0, now).ok
                      = unstake(State, c, t, a, so, 0, now).ok
                 /\ liquidateCollateral(rm.s, zd, c, t, a, zd, so).ok
                      = liquidateCollateral(State, zd, c, t, a, zd, so).ok

\* C17 witness: X has been removed while alice has 300 staked, 150 of
\* them locked: the position is intact, a new stake is rejected, and the
\* unstake of the free 150 and a lock, unlock and seizure of 150 by the
\* registered ledger all succeed.
RemovalKeepsPositionsWitness ==
  /\ last.op = "removeSupportedToken" /\ ~supportedTokens["X"]
  /\ zeroDebtContract # Zero /\ yieldStrategy = Zero
  /\ stakes["alice"]["X"].amount = 300
  /\ stakes["alice"]["X"].lockedAmount = 150
  /\ ~stake(State, "alice", "X", 150, "exact", 0, now).ok
  /\ unstake(State, "alice", "X", 150, "exact", 0, now).ok
  /\ lockCollateral(State, zeroDebtContract, "alice", "X", 150).ok
  /\ unlockCollateral(State, zeroDebtContract, "alice", "X", 150).ok
  /\ liquidateCollateral(State, zeroDebtContract, "alice", "X", 150,
                         zeroDebtContract, "exact").ok

\* C18: createDebtFor succeeds only for a caller that is on the allow-list
\* at that moment, and the allow-list changes only in an authorize or
\* deauthorize call of the administrator.
OnlyAuthorizedIntegrator ==
  [][ /\ Acted("createDebtFor") => last'.caller \in authorizedIntegrators
      /\ authorizedIntegrators' # authorizedIntegrators =>
           /\ last'.op \in {"authorizeIntegrator", "deauthorizeIntegrator"}
           /\ last'.caller = ADMIN
    ]_vars

\* C18 witness: the integrator was authorized and has been deauthorized
\* since. Its createDebtFor for alice, which would succeed were it still
\* listed, is rejected; so is the call of bob, who never was listed.
OnlyAuthorizedIntegratorWitness ==
  /\ last.op = "deauthorizeIntegrator" /\ authorizedIntegrators = {}
  /\ nextDebtId = 1 /\ stakes["alice"]["X"].lockedAmount = 0
  /\ createDebtFor([State EXCEPT !.authorizedIntegrators = {PAY}],
                   PAY, "alice", "shop", "X", 100, "X", 1, now).ok
  /\ ~createDebtFor(State, PAY, "alice", "shop", "X", 100, "X", 1, now).ok
  /\ ~createDebtFor(State, "bob", "alice", "shop", "X", 100, "X", 1, now).ok

\* C19: a successful createDebtFor(b, m, ...) of an allow-listed
\* integrator records the debt createDebt would record for b, locks the
\* same collateral on b's position, pays the merchant paymentAmount - fee
\* and routes the fee to the Debt Ledger's balance, the payment being
\* taken from the integrator's funds and nothing from the borrower.
IntegratorPays ==
  [][ Acted("createDebtFor") =>
        LET c == last'.caller
            b == last'.borrower
            m == last'.user
            pt == last'.payToken
            pa == last'.amount
            ct == last'.token
            col == (pa * collateralRatio) \div BPS
            fee == (pa * platformFee) \div BPS
        IN /\ debts'[last'.id] =
                [borrower |-> b, merchant |-> m, token |-> pt, amount |-> pa,
                 collateralToken |-> ct, collateralAmount |-> col,
                 repaymentDeadline |-> now + last'.period,
                 penalty |-> defaultPenalty, repaid |-> FALSE,
                 liquidated |-> FALSE]
           /\ stakes'[b][ct].lockedAmount = stakes[b][ct].lockedAmount + col
           /\ bal'[pt][m] = bal[pt][m] + (pa - fee)
           /\ bal'[pt][b] = bal[pt][b]
           /\ bal'[pt][DEBT] = bal[pt][DEBT] + fee
           /\ bal'[pt][c] = bal[pt][c] - pa
    ]_vars

\* C20: in every reachable state getUserActiveDebts(user) lists exactly
\* the ids of the recorded debts whose borrower is user and that are Open,
\* each once, in strictly ascending order.
ActiveDebtsExact ==
  \A u \in EOA :
    LET r == getUserActiveDebts(State, u)
    IN /\ {r[i] : i \in 1..Len(r)}
            = {id \in DebtIds : debts[id].borrower = u /\ Open(debts[id])}
       /\ \A i, j \in 1..Len(r) : i < j => r[i] < r[j]

\* C20 witness: alice created debts 1 and 2 and repaid debt 1: her active
\* debts are <<2>>, the merchant has none.
ActiveDebtsExactWitness ==
  /\ last.op = "repayDebt" /\ last.id = 1
  /\ userDebts["alice"] = <<1, 2>>
  /\ debts[1].repaid /\ Open(debts[2])
  /\ getUserActiveDebts(State, "alice") = <<2>>
  /\ getUserActiveDebts(State, "shop") = <<>>

\* ------------------------------------------------ claims C21 - C30 -----
\* The ids under which a debt is recorded.
Recorded(d) == {id \in DebtIds : d[id].borrower # Zero}

\* C24: nextDebtId starts at 1 and never decreases; a successful createDebt
\* or createDebtFor records its debt under the id nextDebtId, which held
\* no debt before, appends that id to the borrower's list and raises
\* nextDebtId by one; no other step (a rejected creation included)
\* records a debt, re-assigns a recorded id to another borrower or moves
\* nextDebtId; every recorded debt has 1 <= id < nextDebtId.
DebtIdsMonotonic ==
  /\ nextDebtId = 1 /\ Recorded(debts) = {}
  /\ [][ /\ nextDebtId' >= nextDebtId
         /\ \A id \in Recorded(debts) :
              debts'[id].borrower = debts[id].borrower
         /\ \A id \in Recorded(debts') : 1 <= id /\ id < nextDebtId'
         /\ IF Created
              THEN /\ nextDebtId \notin Recorded(debts)
                   /\ Recorded(debts') = Recorded(debts) \cup {nextDebtId}
                   /\ nextDebtId' = nextDebtId + 1
                   /\ userDebts'[BorrowerOf(last')]
                        = Append(userDebts[BorrowerOf(last')], nextDebtId)
            ELSE /\ Recorded(debts') = Recorded(debts)
                 /\ nextDebtId' = nextDebtId
                 /\ userDebts' = userDebts
     ]_vars

\* C24 witness: alice's two debts got the ids 1 and 2 in that order, the
\* next id is 3 and nothing is recorded under 0 or 3; a creation that
\* is rejected from here (amount 0) would leave the counter alone.
DebtIdsMonotonicWitness ==
  /\ last.op = "createDebt" /\ last.id = 2
  /\ Recorded(debts) = {1, 2} /\ nextDebtId = 3
  /\ userDebts["alice"] = <<1, 2>>
  /\ debts[1].repaymentDeadline <= debts[2].repaymentDeadline
  /\ ~createDebt(State, "alice", "shop", "X", 0, "X", 1, now).ok

ChangedPositions ==
  {k \in EOA \X Tokens : stakes'[k[1]][k[2]] # stakes[k[1]][k[2]]}

ChangedRewards ==
  {k \in EOA \X Tokens : userRewards'[k[1]][k[2]] # userRewards[k[1]][k[2]]}

RewardSettlement ==
  [][ \A u \in EOA, t \in Tokens :
        (yieldStrategy # Zero /\ stakes'[u][t].amount # stakes[u][t].amount)
          => /\ lastRewardUpdate'[u][t] = now
             /\ \E apy \in ReportedAPYs :
                  userRewards'[u][t] = userRewards[u][t]
                    + (stakes[u][t].amount * apy
                         * (now - lastRewardUpdate[u][t]))
                        \div (YearDays * BPS)
    ]_vars

\* The sum of f over the finite set S.
RECURSIVE SumOver(_, _)
SumOver(f, S) ==
  IF S = {} THEN 0
  ELSE LET x == CHOOSE y \in S : TRUE
       IN f[x] + SumOver(f, S \ {x})

\* What the liquidations so far have left in the Debt Ledger in asset t:
\* the collateral seized in t less the merchant shares paid in t.
LeftByLiquidations(s, t) ==
  SumOver([id \in DebtIds |->
             IF ~s.debts[id].liquidated THEN 0
             ELSE (IF s.debts[id].collateralToken = t
                     THEN s.debts[id].collateralAmount ELSE 0)
                  - (IF s.debts[id].token = t
                       THEN MerchantShare(s.debts[id]) ELSE 0)],
          DebtIds)

\* C26: in every reachable state in which the Debt Ledger holds what the
\* liquidations left it (no fee withdrawal has been made), no createDebt,
\* createDebtFor, repay or liquidate call, whoever makes it, brings the
\* Debt Ledger's balance in an asset below what the liquidations, the new
\* one included, have left in that asset.
SeizedStays ==
  \A t \in Tokens :
    bal[t][DEBT] >= LeftByLiquidations(State, t) =>
      \A r \in
          {createDebt(State, c, m, pt, pa, ct, per, now) :
             c \in Stakers, m \in Merchants, pt \in Tokens,
             pa \in PayAmounts, ct \in Supportable, per \in Periods}
          \cup {createDebtFor(State, c, b, m, pt, pa, ct, per, now) :
                  c \in Integrators, b \in Stakers, m \in Merchants,
                  pt \in Tokens, pa \in PayAmounts, ct \in Supportable,
                  per \in Periods}
          \cup {repayDebt(State, c, id, now) : c \in EOA, id \in DebtIds}
          \cup {liquidateDebt(State, c, id, so, now) :
                  c \in EOA, id \in DebtIds, so \in Outcomes} :
        r.ok => r.s.bal[t][DEBT] >= LeftByLiquidations(r.s, t)

AdminOps ==
  {"addSupportedToken", "removeSupportedToken", "setCollateralRatio",
   "setPlatformFee", "setDefaultPenalty", "setMinimumRepaymentPeriod",
   "setMaximumRepaymentPeriod", "authorizeIntegrator",
   "deauthorizeIntegrator", "setZeroDebtContract", "setYieldStrategy",
   "withdrawFees"}

\* C21: an administrative operation succeeds only when the administrator
\* calls it, and each setting changes only in a successful call of its own
\* operation: the supported assets, the collateral ratio, the fee, the
\* penalty, the minimum and maximum period, the integrator allow-list, the
\* registered Debt Ledger and adapter; the Debt Ledger's balance falls only
\* in withdrawFees. A call by anybody else changes nothing.
AdminOnly ==
  [][/\ (last' # last /\ last'.op \in AdminOps) => last'.caller = ADMIN
     /\ supportedTokens' # supportedTokens =>
          Acted("addSupportedToken") \/ Acted("removeSupportedToken")
     /\ collateralRatio' # collateralRatio => Acted("setCollateralRatio")
     /\ platformFee' # platformFee => Acted("setPlatformFee")
     /\ defaultPenalty' # defaultPenalty => Acted("setDefaultPenalty")
     /\ minimumRepaymentPeriod' # minimumRepaymentPeriod =>
          Acted("setMinimumRepaymentPeriod")
     /\ maximumRepaymentPeriod' # maximumRepaymentPeriod =>
          Acted("setMaximumRepaymentPeriod")
     /\ authorizedIntegrators' # authorizedIntegrators =>
          Acted("authorizeIntegrator") \/ Acted("deauthorizeIntegrator")
     /\ zeroDebtContract' # zeroDebtContract => Acted("setZeroDebtContract")
     /\ yieldStrategy' # yieldStrategy => Acted("setYieldStrategy")
     /\ (\E t \in Tokens : bal'[t][DEBT] < bal[t][DEBT]) =>
          Acted("withdrawFees")
     /\ last' = last => chain' = chain]_vars

\* The administrator has withdrawn the fee of a debt to bob, after changing
\* the minimum period; the same calls by bob are rejected.
AdminOnlyWitness ==
  /\ last.op = "withdrawFees" /\ last.caller = ADMIN /\ last.user = "bob"
  /\ last.amount = 1
  /\ bal["X"][DEBT] = 0 /\ bal["X"]["bob"] = 1
  /\ minimumRepaymentPeriod = 15
  /\ ~setMinimumRepaymentPeriod(State, "bob", 15).ok
  /\ ~withdrawFees(State, "bob", "X", "bob").ok
  /\ withdrawFees(State, ADMIN, "X", "bob").ok

\* C23: claimRewards is rejected while no adapter is configured; with one,
\* the claim is made at the adapter for the caller, whatever is paid out is
\* paid by the adapter to the caller, and no position, accrued reward,
\* reward total or reward clock changes.
ClaimDelegates ==
  [][/\ yieldStrategy = Zero =>
          \A c \in Claimers, t \in Tokens, a \in ClaimAmounts,
             co \in ClaimOutcomes : ~claimRewards(State, c, t, a, co).ok
     /\ Acted("claimRewards") =>
          LET c == last'.caller
              paid == bal'[RewardToken][c] - bal[RewardToken][c]
          IN /\ yieldStrategy # Zero
             /\ stakes' = stakes /\ userRewards' = userRewards
             /\ totalRewards' = totalRewards
             /\ lastRewardUpdate' = lastRewardUpdate
             /\ paid = IF last'.id = 1 THEN last'.amount ELSE 0
             /\ bal[RewardToken][STRATEGY] - bal'[RewardToken][STRATEGY]
                  = paid
             /\ \A t \in Tokens, h \in Holders :
                  (t # RewardToken \/ h \notin {c, STRATEGY}) =>
                    bal'[t][h] = bal[t][h]]_vars

\* bob, who has staked nothing, has claimed 5 through the ledger and been
\* paid by the adapter, which holds alice's forwarded stake.
ClaimDelegatesWitness ==
  /\ last.op = "claimRewards" /\ last.caller = "bob" /\ last.id = 1
  /\ yieldStrategy = STRATEGY
  /\ bal[RewardToken]["bob"] = 5 /\ bal[RewardToken][STRATEGY] = 145
  /\ stakes["alice"]["X"].amount = 150 /\ stakes["bob"]["X"] = ZeroPos
  /\ userRewards["bob"]["X"] = 0

Written == {i \in 0..(RingSize - 1) : yieldSnapshots[i].timestamp # 0}

\* The APY estimate's part of the adapter's storage.
Estimate(a) ==
  <<a.yieldSnapshots, a.currentSnapshotIndex, a.currentAPY, a.lastAPYUpdate>>

\* C22: updateAPY takes effect at most once per day. While less than one
\* day has passed since the last update, a direct call succeeds, and it and
\* every deposit, withdraw and withdrawAll leave the snapshot ring, the
\* ring index, the estimate and the update time as they were, whatever the
\* vault reports, with getAPY returning the last estimate; a step that
\* changes any of them comes a day or more after the previous update and
\* sets the update time to the current time; no two snapshots in the ring
\* are less than a day apart.
ApyThrottled ==
  [][/\ now < lastAPYUpdate + OneDay =>
          /\ \A p \in SharePrices : updateAPY(Adapter, p, now).ok
          /\ \A r \in
                {updateAPY(Adapter, p, now) : p \in SharePrices}
                \cup {deposit(Adapter, c, t, a, p, now) :
                        c \in Depositors, t \in Tokens,
                        a \in DepositAmounts, p \in SharePrices}
                \cup {withdraw(Adapter, c, t, a, p, wr, now) :
                        c \in Depositors, t \in Tokens,
                        a \in DepositAmounts, p \in SharePrices,
                        wr \in WithdrawReturns}
                \cup {withdrawAll(Adapter, c, u, p, now) :
                        c \in Depositors \cup {ADMIN}, u \in Depositors,
                        p \in SharePrices} :
                /\ Estimate(r.s) = Estimate(Adapter)
                /\ getAPY(r.s, usdcToken) = currentAPY
          /\ estimate' = estimate
     /\ estimate' # estimate =>
          /\ now >= lastAPYUpdate + OneDay
          /\ lastAPYUpdate' = now /\ now' = now
          /\ yieldSnapshots'[currentSnapshotIndex'].timestamp = now
     /\ \A i, j \in Written :
          i # j => \/ yieldSnapshots[i].timestamp
                        >= yieldSnapshots[j].timestamp + OneDay
                   \/ yieldSnapshots[j].timestamp
                        >= yieldSnapshots[i].timestamp + OneDay]_vars

\* An update was made today and produced an estimate; the vault's price
\* has moved since and a deposit has been made today, which left the
\* estimate alone, as a further call today would.
ApyThrottledWitness ==
  /\ last.op = "deposit" /\ last.seq = 3
  /\ lastAPYUpdate = now /\ now = T0 + 2
  /\ currentSnapshotIndex = 2
  /\ currentAPY # InitAPY
  /\ userShares["alice"] > 0
  /\ sharePrice # yieldSnapshots[currentSnapshotIndex].sharePrice
  /\ updateAPY(Adapter, sharePrice, now) = Ok(Adapter)
  /\ updateAPY(Adapter, sharePrice, now + OneDay) # Ok(Adapter)

\* C29: once an entry point (stake, unstake, liquidateCollateral,
\* createDebt, createDebtFor, repayDebt, liquidateDebt) has made an
\* external call - a token transfer or an adapter call - none of its later
\* statements writes a stake position or a debt record, so that a callback
\* made from inside the external call finds them as the call will leave
\* them.
WritesBeforeCalls ==
  [][(/\ frames # <<>> /\ Top.called /\ ~Top.inCall
      /\ Top.rec.op # "withdrawFees"
      /\ Len(frames') = Len(frames)
      /\ frames'[Len(frames)].pc = Top.pc + 1)
       => stakes' = stakes /\ debts' = debts]_vars

\* C30: while a call of an entry point that makes an external transfer
\* (stake, unstake, liquidateCollateral, createDebt, createDebtFor,
\* repayDebt, liquidateDebt, withdrawFees) is in flight, no call that
\* re-enters that entry point from inside its external call is accepted;
\* and once no call is in flight every guard is released, so that the next
\* transaction is accepted.
NoReentry ==
  [][/\ (frames # <<>> /\ Len(frames') > Len(frames)) =>
          \A i \in 1..Len(frames) :
            frames[i].rec.op # frames'[Len(frames')].rec.op
     /\ frames' = <<>> => entered' = {}
     /\ \A i \in 1..Len(frames') :
          NonReentrant(frames'[i].rec.op) \subseteq entered']_vars

\* The slots other than `idx` whose sample is written and within the window at t.
OthersInWindow(snaps, idx, t) ==
  {i \in 0..(RingSize - 1) \ {idx} :
     snaps[i].timestamp # 0 /\ t - snaps[i].timestamp <= WindowDays}

\* floor((floor(cur * 1e18 / old) - 1e18) * 365 days * 10000
\*        / (elapsed * 1e18))
Annualized(cur, old, elapsed) ==
  ((((cur * WAD) \div old) - WAD) * YearDays * BPS) \div (elapsed * WAD)

\* C31: every updateAPY that takes effect (a day or more after the last
\* update, and completing) writes the sample (now, share price) into the
\* slot after the current one and leaves the other slots alone, sets the
\* update time to now, and sets currentAPY to the linear annualization, in
\* basis points, of the current sample against the sample with the
\* smallest timestamp among the other samples no older than 30 days; when
\* there is no such sample, currentAPY keeps its value.
ApyFormula ==
  [][(last'.seq # last.seq /\ last'.op = "updateAPY"
        /\ now >= lastAPYUpdate + OneDay) =>
       LET idx == (currentSnapshotIndex + 1) % RingSize
           others == OthersInWindow(yieldSnapshots', idx, now)
       IN /\ currentSnapshotIndex' = idx
          /\ yieldSnapshots' =
               [yieldSnapshots EXCEPT
                  ![idx] = [timestamp |-> now, sharePrice |-> sharePrice]]
          /\ lastAPYUpdate' = now
          /\ others = {} => currentAPY' = currentAPY
          /\ others # {} =>
               \E o \in others :
                 /\ \A j \in others :
                      yieldSnapshots[o].timestamp <= yieldSnapshots[j].timestamp
                 /\ currentAPY' =
                      Annualized(sharePrice, yieldSnapshots[o].sharePrice,
                                 now - yieldSnapshots[o].timestamp)]_vars

\* The deployment sample has left the window: an update on day 32 found
\* only the sample of day 3, taken at the lower price, and set the
\* estimate from it; the ring holds three samples.
ApyFormulaWitness ==
  /\ last.op = "updateAPY" /\ lastAPYUpdate = now
  /\ now = WindowDays + 2
  /\ currentSnapshotIndex = 2
  /\ yieldSnapshots[0] = [timestamp |-> T0, sharePrice |-> WAD]
  /\ yieldSnapshots[1] = [timestamp |-> 3, sharePrice |-> WAD]
  /\ yieldSnapshots[2] = [timestamp |-> now, sharePrice |-> 1100]
  /\ currentAPY = Annualized(1100, WAD, 29)
  /\ currentAPY # InitAPY

\* The deployment sample has left the window and no other was taken: the
\* update on day 32 recorded its sample and kept the estimate.
ApyKeptWitness ==
  /\ last.op = "updateAPY" /\ last.seq = 1 /\ lastAPYUpdate = now
  /\ now = WindowDays + 2
  /\ yieldSnapshots[1] = [timestamp |-> now, sharePrice |-> 1100]
  /\ currentAPY = InitAPY

\* The collateral recorded in user u's Open debts that use asset t.
LockedByOpenDebts(u, t) ==
  SumOver([id \in DebtIds |->
             IF Open(debts[id]) /\ debts[id].borrower = u
                  /\ debts[id].collateralToken = t
               THEN debts[id].collateralAmount ELSE 0],
          DebtIds)

\* C32: with the Debt Ledger's entry points the only callers of
\* lockCollateral, unlockCollateral and liquidateCollateral, in every
\* reachable state and for every (user, asset), locked is the sum of
\* collateralAmount over the user's Open debts that use the asset; hence
\* locked covers the collateral of each Open debt, so that the unlock of
\* repay and the seizure of liquidate do not fail for lack of locked
\* balance, and locked is 0 when the user has no Open debt in the asset.
LockedIsOpenCollateral ==
  /\ \A u \in EOA, t \in Tokens :
       stakes[u][t].lockedAmount = LockedByOpenDebts(u, t)
  /\ \A id \in 1..(nextDebtId - 1) :
       Open(debts[id]) =>
         LET p == stakes[debts[id].borrower][debts[id].collateralToken]
         IN /\ p.lockedAmount >= UnlockedOnRepay(debts[id])
            /\ p.lockedAmount >= SeizedOnLiquidate(debts[id])
            /\ p.amount >= SeizedOnLiquidate(debts[id])

\* alice holds two Open debts, the first taken at ratio 15000 with 1
\* locked, the second at ratio 10000 with 100 locked: 101 of her 150 is
\* locked.
LockedIsOpenCollateralWitness ==
  /\ Open(debts[1]) /\ Open(debts[2])
  /\ debts[1].borrower = "alice" /\ debts[2].borrower = "alice"
  /\ debts[1].collateralToken = "X" /\ debts[2].collateralToken = "X"
  /\ debts[1].collateralAmount = 1 /\ debts[2].collateralAmount = 100
  /\ stakes["alice"]["X"].lockedAmount = 101
  /\ stakes["alice"]["X"].amount = 150

\* The debt ids never assigned: 0 and those from nextDebtId on.
NeverCreated == {id \in DebtIds : id = 0 \/ id >= nextDebtId}

\* C33: repay and liquidate never succeed for a debt id that was never
\* created: in every reachable state the records under such ids are unset,
\* neither Repaid nor Liquidated, and a repayDebt or liquidateDebt of such
\* an id aborts for every caller and whatever the adapter does, so that it
\* moves no asset and changes no StakePosition; no step is a successful
\* repay or liquidation of an id outside the created ones.
UncreatedUntouched ==
  [](/\ \A id \in NeverCreated :
          /\ debts[id] = ZeroDebtInfo
          /\ \A c \in EOA :
               /\ ~repayDebt(State, c, id, now).ok
               /\ \A so \in Outcomes : ~liquidateDebt(State, c, id, so, now).ok
     /\ last.op \in {"repayDebt", "liquidateDebt"} =>
          last.id \in 1..(nextDebtId - 1))

\* Debt 1 has been created and liquidated and the deadline 0 of the unset
\* records has passed: ids 0 and 2 are still refused.
UncreatedUntouchedWitness ==
  /\ nextDebtId = 2 /\ debts[1].liquidated
  /\ last.op = "liquidateDebt" /\ last.id = 1
  /\ now > ZeroDebtInfo.repaymentDeadline
  /\ zeroDebtContract = DEBT
  /\ ~liquidateDebt(State, "bob", 0, "exact", now).ok
  /\ ~liquidateDebt(State, "bob", 2, "exact", now).ok
  /\ ~repayDebt(State, "alice", 2, now).ok

\* C34: in every reachable state, for every Open debt whose deadline has
\* passed, a liquidateDebt call succeeds, whoever makes it - with the Debt
\* Ledger registered at the Collateral Ledger, no adapter in the way and
\* the seized collateral in the Collateral Ledger's hands, so that nothing
\* but the payment of the merchant's penalty share can stand in its way.
OverdueLiquidatable ==
  \A id \in 1..(nextDebtId - 1) :
    (/\ Open(debts[id]) /\ DeadlinePassed(debts[id], now)
     /\ zeroDebtContract = DEBT /\ yieldStrategy = Zero
     /\ bal[debts[id].collateralToken][STAKING] >= debts[id].collateralAmount)
      => \A c \in EOA : liquidateDebt(State, c, id, "exact", now).ok

\* C35: in every reachable state, for every Open debt, a repayDebt call
\* by its borrower, who holds the amount due, succeeds - also after the
\* administrator has re-pointed the Collateral Ledger's registered Debt
\* Ledger or changed the yield strategy.
OpenRepayable ==
  \A id \in 1..(nextDebtId - 1) :
    (/\ Open(debts[id])
     /\ bal[debts[id].token][debts[id].borrower]
          >= RepaymentAmount(debts[id], now))
      => repayDebt(State, debts[id].borrower, id, now).ok

\* What MorphoStrategyImpl.withdraw sends the ledger for a request of
\* `amount` at share price `price`: the assets of the redeemed shares,
\* convertToShares(amount) of them, capped at the amount.
ImplPays(amount, price) ==
  LET sharesToRedeem == convertToShares(amount, price)
      assetsReceived == convertToAssets(sharesToRedeem, price)
  IN IF amount > assetsReceived THEN assetsReceived ELSE amount

\* The adapter's answer to a withdrawal of `amount`, as the ledger sees it.
PaysAs(amount, got) ==
  IF got = amount THEN "exact" ELSE IF got = amount - 1 THEN "short"
  ELSE "revert"

TotalStaked(t) == SumOver([u \in EOA |-> stakes[u][t].amount], EOA)

\* C36: custody conservation. In every reachable state and for each
\* asset: with no adapter configured and nothing left with one, the
\* Collateral Ledger holds the sum of staked over all users; and with the
\* adapter configured, holding that sum, and the ledger holding nothing
\* itself, every unstake of free balance is paid out in full, whatever the
\* vault's share price has become.
CustodyConserved ==
  \A t \in Supportable :
    /\ (yieldStrategy = Zero /\ bal[t][STRATEGY] = 0)
         => bal[t][STAKING] = TotalStaked(t)
    /\ (yieldStrategy = STRATEGY /\ bal[t][STAKING] = 0
          /\ bal[t][STRATEGY] = TotalStaked(t))
         => \A u \in Stakers, a \in StakeAmounts \ {0}, p \in SharePrices,
               apy \in ReportedAPYs :
              UnlockedCovers(stakes[u][t], a) =>
                unstake(State, u, t, a, PaysAs(a, ImplPays(a, p)), apy,
                        now).ok

\* C37: updateAPY never aborts because of the share-price history: in
\* every reachable state of the adapter and for every share price the
\* vault may report, a current price below the oldest sample in the window
\* included, updateAPY completes, and so a deposit is not held up by the
\* estimate.
UpdateNeverAborts ==
  \A p \in SharePrices :
    /\ updateAPY(Adapter, p, now).ok
    /\ \A c \in Depositors, a \in DepositAmounts \ {0} :
         bal[usdcToken][c] >= a => deposit(Adapter, c, usdcToken, a, p, now).ok

\* C38: for every paymentAmount > 0, at every ratio >= 10000 and every
\* position: if getAvailableCredit(borrower, asset) >= paymentAmount then
\* floor(paymentAmount * collateralRatio / 10000) <= staked - locked, so
\* that the lockCollateral step of createDebt and createDebtFor accepts the
\* collateral once the credit check has passed, and the collateral is at
\* least paymentAmount; every debt recorded has collateralAmount >= amount.
CreditImpliesLock ==
  /\ collateralRatio >= BPS
  /\ \A u \in Stakers, t \in Supportable, pa \in CreditAmounts :
       LET credit == getAvailableCredit(State, u, t)
           required == CollateralRequired(State, pa)
       IN (credit.ok /\ CreditCovers(credit.v, pa)) =>
            /\ required <= Free(stakes[u][t])
            /\ lockCollateral(State, DEBT, u, t, required).ok
            /\ required >= pa
  /\ \A id \in 1..(nextDebtId - 1) :
       debts[id].collateralAmount >= debts[id].amount

\* alice staked 151 and borrowed 100 at ratio 15001, the least stake
\* whose credit covers 100 at that ratio: 150 is locked, and the 1 left
\* free gives no credit for a further debt of 1.
CreditImpliesLockWitness ==
  /\ last.op = "createDebt" /\ last.amount = 100
  /\ collateralRatio = 15001
  /\ last.prePos.amount = 151 /\ last.prePos.lockedAmount = 0
  /\ debts[1].collateralAmount = 150
  /\ stakes["alice"]["X"].lockedAmount = 150
  /\ getAvailableCredit(State, "alice", "X").v = 0

\* C39: whenever updateAPY recomputes currentAPY, the sample it has chosen
\* is not the one just inserted and was taken no later than the previous
\* update, itself a day or more ago: the interval between the chosen and
\* the current sample is at least 1 day and at most 30 days, so that the
\* annualization never divides by zero; and the scan ends on the sample
\* just inserted exactly when it found none older in the window.
ElapsedInRange ==
  [][(last'.seq # last.seq /\ last'.op = "updateAPY"
        /\ yieldSnapshots' # yieldSnapshots) =>
       LET idx == currentSnapshotIndex'
           old == OldestFrom(yieldSnapshots', now, 0, idx, now)
           timeElapsed == now - old[2]
       IN /\ yieldSnapshots'[old[1]].timestamp = old[2]
          /\ (old[1] = idx) <=> (old[2] = now)
          /\ (old[2] < now /\ old[1] # idx) =>
               /\ old[2] <= lastAPYUpdate
               /\ now >= lastAPYUpdate + OneDay
               /\ timeElapsed >= OneDay
               /\ timeElapsed <= WindowDays
               /\ timeElapsed * WAD > 0]_vars

\* An update exactly 30 days after deployment chose the deployment sample,
\* the first update since, and set the estimate from a rise of 10% in 30
\* days.
ElapsedInRangeWitness ==
  /\ last.op = "updateAPY" /\ last.seq = 1
  /\ now = T0 + WindowDays /\ lastAPYUpdate = now
  /\ currentSnapshotIndex = 1
  /\ yieldSnapshots[0].timestamp = T0
  /\ yieldSnapshots[1] = [timestamp |-> now, sharePrice |-> 1100]
  /\ currentAPY = Annualized(1100, WAD, WindowDays)

\* C40: the parameter bounds hold in every reachable state, whatever the
\* administrator sets: minimumRepaymentPeriod <= maximumRepaymentPeriod,
\* platformFee <= 1000, defaultPenalty <= 3000, collateralRatio >= 10000.
\* In every such state a setter call by the owner is accepted, and sets
\* the parameter, exactly when the value keeps the bound, and is rejected
\* with the parameters unchanged otherwise; hence the fee of a payment
\* never exceeds the payment and the divisor of getAvailableCredit is
\* never zero.
ParameterBounds ==
  /\ minimumRepaymentPeriod <= maximumRepaymentPeriod
  /\ platformFee <= MaxPlatformFee
  /\ defaultPenalty <= MaxDefaultPenalty
  /\ collateralRatio >= BPS
  /\ \A p \in PeriodBounds :
       /\ setMinimumRepaymentPeriod(State, ADMIN, p) =
            (IF p <= maximumRepaymentPeriod
               THEN Ok([State EXCEPT !.minimumRepaymentPeriod = p])
             ELSE Revert(State))
       /\ setMaximumRepaymentPeriod(State, ADMIN, p) =
            (IF p >= minimumRepaymentPeriod
               THEN Ok([State EXCEPT !.maximumRepaymentPeriod = p])
             ELSE Revert(State))
  /\ \A f \in Fees :
       setPlatformFee(State, ADMIN, f) =
         (IF f <= MaxPlatformFee THEN Ok([State EXCEPT !.platformFee = f])
          ELSE Revert(State))
  /\ \A f \in Penalties :
       setDefaultPenalty(State, ADMIN, f) =
         (IF f <= MaxDefaultPenalty
            THEN Ok([State EXCEPT !.defaultPenalty = f])
          ELSE Revert(State))
  /\ \A r \in Ratios :
       setCollateralRatio(State, ADMIN, r) =
         (IF r >= BPS THEN Ok([State EXCEPT !.collateralRatio = r])
          ELSE Revert(State))
  /\ \A pa \in PayAmounts : PlatformFeeOf(State, pa) <= pa
  /\ collateralRatio # 0

\* The owner has lowered the maximum to 15 and raised the minimum to meet
\* it; raising the minimum to 31 or the fee to 1001 is now refused.
ParameterBoundsWitness ==
  /\ last.op = "setMinimumRepaymentPeriod" /\ last.period = 15
  /\ minimumRepaymentPeriod = 15 /\ maximumRepaymentPeriod = 15
  /\ setMinimumRepaymentPeriod(State, ADMIN, 31) = Revert(State)
  /\ setPlatformFee(State, ADMIN, 1001) = Revert(State)

====
